---- MODULE Spec2Model ----
(***************************************************************************)
(* Model of the concurrent fix orchestrator (executeFixes) of the doctype  *)
(* / sintesi CLI: pMap's worker pool, processTask's generation with retry  *)
(* and placeholder fallback, the per-file FileMutex around the             *)
(* check-inject-update-save section, and the final FixResult.              *)
(*                                                                         *)
(* The program runs on one JavaScript thread: between two suspension       *)
(* points (await) a task runs to completion.  The variable `running`       *)
(* names the task that is inside such a synchronous stretch; the steps of  *)
(* that stretch are separate actions so that the states a process kill     *)
(* could leave behind are states of the model.                             *)
(***************************************************************************)
EXTENDS Integers, Sequences, FiniteSets, TLC

(* ------------------------------ bounds --------------------------------- *)

\* Largest number of drift records handed to executeFixes when content comes
\* from the placeholder only (no AI agent).
MaxDrifts == 6

\* Largest number of drift records handed to executeFixes when the AI
\* writer agent generates the content.
MaxAIDrifts == 3

(* ------------------------- program constants --------------------------- *)

\* pMap(drifts, processTask, 5, ...)
PoolWidth == 5

\* retry(..., { retries: 3, ... })
Retries == 3

(* ----------------------------- the inputs ------------------------------ *)

VARIABLES
    n,             \* drifts.length
    dryRun,        \* options.dryRun
    useAI,         \* useAI && writerAgent
    pc,            \* position of processTask for each drift record
    attempt,       \* generator calls made so far for each record
    newContent,    \* processTask's newContent
    injRes,        \* outcome of injectIntoFile / insertIntoFile for each record
    index,         \* pMap: index (items handed out so far)
    spawned,       \* pMap: execThread() calls made by the for loop
    threads,       \* pMap: the item each execThread is awaiting (0: none)
    results,       \* pMap: results array (= fixes)
    held,          \* FileMutex: keys currently locked
    disk,          \* documentation files on disk
    dirs,          \* directories that exist
    mapEntries,    \* the map manager's in-memory entries
    diskMap,       \* the map file on disk
    successCount,
    failCount,
    running,       \* the task inside a synchronous stretch (0: none)
    phase,         \* position of executeFixes itself
    fixResult,     \* the FixResult returned
    commitResult   \* gitHelper.autoCommit: not reached, skipped, or its result

\* AIAgent (packages/ai/ai-agent.ts): one generateDocumentation request
VARIABLES
    agMax,         \* retryConfig.maxAttempts
    agProvider,    \* which provider the agent calls
    agState,       \* position of executeWithRetry
    agAttempt,     \* executeWithRetry's parameter attempt
    agTrace,       \* outcomes of the calls of fn, in order
    agDelays,      \* calls of delay(retryConfig.delayMs) made
    agThrown       \* the error executeWithRetry has thrown, if any

fixVars == <<n, dryRun, useAI, pc, attempt, newContent, injRes, index, spawned,
             threads, results, held, disk, dirs, mapEntries, diskMap,
             successCount, failCount, running, phase, fixResult, commitResult>>

agentVars == <<agMax, agProvider, agState, agAttempt, agTrace, agDelays, agThrown>>

\* detectDrift (packages/cli/src/services/drift-detector.ts): one call
VARIABLES
    detEntries,    \* mapManager.getEntries()
    detEnv,        \* for each entry, what its code file and the analyzer give
    detIdx,        \* entries the for loop has been through
    detDrifts,     \* drifts
    detMissing,    \* missing
    detState       \* position of detectDrift

detectVars == <<detEntries, detEnv, detIdx, detDrifts, detMissing, detState>>

\* The map store (DoctypeMapManager): a sequence of calls
VARIABLES
    stEntries,     \* the entries of the map
    stCalls,       \* calls made so far
    stLast         \* what the last call did

storeVars == <<stEntries, stCalls, stLast>>

\* What executeFixes never touches.
\* The parser and the injector of the content package: the document, and the
\* call made on it with its result.
VARIABLES
    cDoc,
    cLast

contentVars == <<cDoc, cLast>>

\* SmartChecker.checkReadme (packages/cli/fix-orchestrator.ts): one call
VARIABLES
    scReadme,      \* existsSync(readmePath)
    scContext,     \* what analysisService.analyze resolved with
    scCalls,       \* the calls checkReadme has made, in order
    scResponse,    \* what plannerAgent.generateText resolved with
    scState,       \* position of checkReadme
    scResult       \* the SmartCheckResult returned

smartVars == <<scReadme, scContext, scCalls, scResponse, scState, scResult>>

\* initCommand (src/cli/init.ts): one call
VARIABLES
    initFiles,     \* doctype.config.json, .env and the project root on disk
    initAsked,     \* the questions asked, in order
    initAnswers,   \* what question() resolved with, in order
    initRl,        \* the readline interface
    initState,     \* position of initCommand
    initResult     \* the InitResult returned

initVars == <<initFiles, initAsked, initAnswers, initRl, initState, initResult>>

\* pMap (packages/cli/fix-orchestrator.ts) with any mapper: one call
VARIABLES
    pmItems,       \* items
    pmWidth,       \* concurrency
    pmIndex,       \* index
    pmSpawned,     \* i of the for loop that starts the threads
    pmThread,      \* for each execThread, where it is and its curIndex
    pmResults,     \* results
    pmDispatched,  \* the items the mapper was called with, in order of call
    pmCompleted,   \* the items whose mapper call resolved, in order
    pmState        \* position of pMap

poolVars == <<pmItems, pmWidth, pmIndex, pmSpawned, pmThread, pmResults,
              pmDispatched, pmCompleted, pmState>>

\* GitHelper.autoCommit (packages/cli/src/commands/readme.ts): one call
VARIABLES
    gitFiles,      \* files.length
    gitSymbols,    \* symbolNames.length
    gitPush,       \* push
    gitSteps,      \* the git commands run after the repository check, with
                   \* their results, in order
    gitState,      \* position of autoCommit
    gitResult      \* the GitOperationResult returned

gitVars == <<gitFiles, gitSymbols, gitPush, gitSteps, gitState, gitResult>>

\* VercelAIProvider.generateDocumentation (packages/ai/providers): one call
VARIABLES
    vpText,        \* text of generateText(options)
    vpState,       \* position of generateDocumentation
    vpResult       \* the result returned, or the error thrown

providerVars == <<vpText, vpState, vpResult>>

otherVars == <<agentVars, detectVars, storeVars, contentVars, smartVars, initVars, poolVars, gitVars, providerVars>>

\* What a request to the AIAgent never touches.
notAgentVars == <<fixVars, detectVars, storeVars, contentVars, smartVars, initVars, poolVars, gitVars, providerVars>>

\* What detectDrift never touches.
notDetectVars == <<fixVars, agentVars, storeVars, contentVars, smartVars, initVars, poolVars, gitVars, providerVars>>

\* What the calls of the map store never touch.
notStoreVars == <<fixVars, agentVars, detectVars, contentVars, smartVars, initVars, poolVars, gitVars, providerVars>>

\* What the parser and the injector never touch.
notContentVars == <<fixVars, agentVars, detectVars, storeVars, smartVars, initVars, poolVars, gitVars, providerVars>>

\* What checkReadme never touches.
notSmartVars == <<fixVars, agentVars, detectVars, storeVars, contentVars, initVars, poolVars, gitVars, providerVars>>

\* What initCommand never touches.
notInitVars == <<fixVars, agentVars, detectVars, storeVars, contentVars, smartVars, poolVars, gitVars, providerVars>>

\* What a call of pMap on its own never touches.
notPoolVars == <<fixVars, agentVars, detectVars, storeVars, contentVars, smartVars, initVars, gitVars, providerVars>>

\* What a call of autoCommit on its own never touches.
notGitVars == <<fixVars, agentVars, detectVars, storeVars, contentVars, smartVars, initVars, poolVars, providerVars>>

\* What a call of generateDocumentation on its own never touches.
notProviderVars == <<fixVars, agentVars, detectVars, storeVars, contentVars, smartVars, initVars, poolVars, gitVars>>

vars == <<fixVars, otherVars>>

Records == 1..n

(* ------------------------------- paths --------------------------------- *)

\* path.resolve: "." is dropped, ".." removes the segment before it.
RECURSIVE Normalize(_, _)
Normalize(done, rest) ==
    IF rest = <<>> THEN done
    ELSE LET s == Head(rest) IN
         IF s = "." THEN Normalize(done, Tail(rest))
         ELSE IF s = ".." THEN
              Normalize(IF done = <<>> THEN done
                        ELSE SubSeq(done, 1, Len(done) - 1), Tail(rest))
         ELSE Normalize(Append(done, s), Tail(rest))

projectBase == <<"proj">>

Resolve(base, p) == Normalize(<<>>, base \o p)

Dirname(p) == SubSeq(p, 1, Len(p) - 1)

(* --------------------------- the drift records ------------------------- *)

\* entry.docRef.filePath of record i, as spelled in the entry.
DocRefPath(i) ==
    CASE i = 1 -> <<"docs", "a.md">>
      [] i = 2 -> <<"docs", "a.md">>
      [] i = 3 -> <<"new", "c.md">>
      [] i = 4 -> <<".", "new", "..", "new", "c.md">>
      [] i = 5 -> <<"docs", "b.md">>
      [] i = 6 -> <<"docs", "a.md">>
      [] OTHER -> <<"docs", "b.md">>

\* Whether the documentation file holds an anchor with the entry's id when
\* the run starts.
AnchorAtStart(i) == i \notin {3, 4, 5}

\* Whether the map holds the entry when the run starts.
InMapAtStart(i) == i \notin {3, 4}

\* entry.id, entry.codeRef.symbolName
EntryId(i) == i
SymbolName(i) == i

\* currentSignature.hash and currentSignature.signatureText
CurrentHash(i) == (2 * i) + 1
CurrentText(i) == 100 + (2 * i) + 1

\* entry.codeSignatureHash and entry.codeSignatureText of the drift record's
\* entry.  An entry of the map has drifted: its hash is not the current one.
\* Record 3 is an entry built for a symbol that was not tracked yet, from
\* the current signature; record 4 is such an entry carrying an older hash.
EntryHash(i) == IF i = 3 THEN CurrentHash(i) ELSE 2 * i
EntryText(i) == IF i = 3 THEN CurrentText(i) ELSE 100 + (2 * i)

\* const docFilePath = resolve(projectBase, entry.docRef.filePath)
DocFilePath(i) == Resolve(projectBase, DocRefPath(i))

AllFiles == {DocFilePath(i) : i \in 1..(MaxDrifts + 1)}

(* ------------------------------ contents ------------------------------- *)

Absent == <<"absent">>
NoFile == <<"nofile">>
OldDoc(i) == <<"old", SymbolName(i), 100 + (2 * i)>>

\* generatePlaceholderContent(symbolName, signature)
generatePlaceholderContent(symbolName, signature) ==
    <<"placeholder", symbolName, signature>>

\* response.content of writerAgent.generateDocumentation(request)
GeneratedContent(i) == <<"ai", SymbolName(i), CurrentText(i)>>

NoContent == <<"none">>

\* The directories that exist when the run starts.
DirsAtStart == {<<"proj">>, <<"proj", "docs">>}

\* A documentation file is the content of each anchor it holds; a file in a
\* directory that does not exist does not exist.
FileAtStart(f) ==
    IF Dirname(f) \in DirsAtStart
    THEN [id \in Records |->
             IF DocFilePath(id) = f /\ AnchorAtStart(id) THEN OldDoc(id) ELSE Absent]
    ELSE NoFile

EmptyFile == [id \in Records |-> Absent]

NoEntry == [hash |-> -1, text |-> -1]

MapAtStart ==
    [id \in Records |->
        IF InMapAtStart(id) THEN [hash |-> EntryHash(id), text |-> EntryText(id)]
        ELSE NoEntry]

NoResult == [success |-> FALSE, newContent |-> <<"unset">>]

(* --------------------- the parts that are not running ------------------ *)

\* No request is made of the AIAgent.
AgentOff ==
    /\ agMax = 0
    /\ agProvider = "none"
    /\ agState = "off"
    /\ agAttempt = 0
    /\ agTrace = <<>>
    /\ agDelays = 0
    /\ agThrown = "none"

\* detectDrift is not called.
DetectOff ==
    /\ detEntries = <<>>
    /\ detEnv = <<>>
    /\ detIdx = 0
    /\ detDrifts = <<>>
    /\ detMissing = <<>>
    /\ detState = "off"

\* No call has been made of the map store.
NoCall == [op |-> "none", id |-> 0, hash |-> 0, result |-> "none"]

\* No call is made of the map store.
StoreOff ==
    /\ stEntries = <<>>
    /\ stCalls = 0
    /\ stLast = NoCall

\* No document is parsed.
ContentOff ==
    /\ cDoc = <<>>
    /\ cLast = [op |-> "off"]

\* analyze has not resolved; generateText has not resolved; checkReadme has
\* not returned.
NoContext == [gitDiff |-> <<>>, changedFiles |-> {}, resolved |-> FALSE]
NoResponse == <<>>
NoSmartResult == [returned |-> FALSE, hasDrift |-> FALSE]

\* checkReadme is not called.
SmartOff ==
    /\ scReadme = FALSE
    /\ scContext = NoContext
    /\ scCalls = <<>>
    /\ scResponse = NoResponse
    /\ scState = "off"
    /\ scResult = NoSmartResult

\* No file on disk; no InitResult yet.
NotOnDisk == [exists |-> FALSE, lines |-> <<>>, newline |-> FALSE]
NoFiles == [config |-> NotOnDisk, env |-> NotOnDisk, newRoot |-> FALSE]
NoInitResult == [returned |-> FALSE, success |-> FALSE, error |-> "none"]

\* initCommand is not called.
InitCommandOff ==
    /\ initFiles = NoFiles
    /\ initAsked = <<>>
    /\ initAnswers = <<>>
    /\ initRl = "none"
    /\ initState = "off"
    /\ initResult = NoInitResult

\* pMap is not called on its own.
PoolOff ==
    /\ pmItems = <<>>
    /\ pmWidth = 0
    /\ pmIndex = 0
    /\ pmSpawned = 0
    /\ pmThread = <<>>
    /\ pmResults = <<>>
    /\ pmDispatched = <<>>
    /\ pmCompleted = <<>>
    /\ pmState = "off"

\* autoCommit has not returned.
NoGitResult == [returned |-> FALSE, success |-> FALSE, text |-> "none"]

\* autoCommit is not called on its own.
GitOff ==
    /\ gitFiles = 0
    /\ gitSymbols = 0
    /\ gitPush = FALSE
    /\ gitSteps = <<>>
    /\ gitState = "off"
    /\ gitResult = NoGitResult

\* generateDocumentation has neither returned nor thrown.
NoProviderResult == [content |-> <<>>, code |-> "none"]

\* generateDocumentation is not called on its own.
ProviderOff ==
    /\ vpText = <<>>
    /\ vpState = "off"
    /\ vpResult = NoProviderResult

(* ------------------------------- Init ---------------------------------- *)

\* A pool that starts one thread per item.
ThreadPerItem == n

\* new Array(items.length); let index = 0; the threads pushed by the for loop
ThreadCount == PoolWidth

Init ==
    /\ useAI \in BOOLEAN
    /\ n \in IF useAI THEN 0..MaxAIDrifts ELSE {MaxDrifts}
    /\ dryRun \in BOOLEAN
    /\ pc = [t \in Records |-> "pending"]
    /\ attempt = [t \in Records |-> 0]
    /\ newContent = [t \in Records |-> NoContent]
    /\ injRes = [t \in Records |-> "none"]
    /\ index = 0
    /\ spawned = 0
    /\ threads = [w \in 1..ThreadCount |-> 0]
    /\ results = [t \in Records |-> NoResult]
    /\ held = {}
    /\ disk = [f \in AllFiles |-> FileAtStart(f)]
    /\ dirs = DirsAtStart
    /\ mapEntries = MapAtStart
    /\ diskMap = MapAtStart
    /\ successCount = 0
    /\ failCount = 0
    /\ running = 0
    /\ phase = "pmap"
    /\ fixResult = [totalFixes |-> 0, successfulFixes |-> 0, failedFixes |-> 0,
                    success |-> FALSE]
    /\ commitResult = "none"
    /\ ProviderOff
    /\ GitOff
    /\ PoolOff
    /\ SmartOff
    /\ InitCommandOff
    /\ AgentOff
    /\ DetectOff
    /\ StoreOff
    /\ ContentOff

(* ------------------------- suspension points --------------------------- *)

\* Suspension points if the map were saved with an asynchronous write.
YieldsInSave(p) == p \in {"generating", "waiting", "mkdir", "saving", "succeeded", "failed"}

\* processTask gives up the thread at: await retry(...), await
\* fileMutex.run(...), await import('fs'), and when it has returned.
Yields(p) == p \in {"generating", "waiting", "mkdir", "succeeded", "failed"}

\* A task at a suspension point resumes when the thread is free; inside a
\* synchronous stretch it is the one that runs.
CanRun(t) == IF Yields(pc[t]) THEN running = 0 ELSE running = t

Goto(t, p) ==
    /\ pc' = [pc EXCEPT ![t] = p]
    /\ running' = IF Yields(p) THEN 0 ELSE t

(* ------------------------------ pMap ----------------------------------- *)

\* processTask up to its first await: with AI the first generator call is
\* made inside retry; without it the placeholder is built and
\* fileMutex.run is called.
StartTask(t) ==
    IF useAI
    THEN /\ attempt' = [attempt EXCEPT ![t] = 1]
         /\ Goto(t, "generating")
         /\ UNCHANGED newContent
    ELSE /\ newContent' = [newContent EXCEPT ![t] =
                generatePlaceholderContent(SymbolName(t), CurrentText(t))]
         /\ Goto(t, "waiting")
         /\ UNCHANGED attempt

\* A loop that stops one item early.
MoreItemsButLast == index < n - 1

\* while (index < items.length)
MoreItems == index < n

\* execThread: { const curIndex = index++; results[curIndex] = await mapper(...) }
TakeItem(w) ==
    /\ MoreItems
    /\ index' = index + 1
    /\ threads' = [threads EXCEPT ![w] = index + 1]
    /\ StartTask(index + 1)

\* for (let i = 0; i < concurrency; i++) threads.push(execThread())
Spawn ==
    /\ phase = "pmap"
    /\ spawned < ThreadCount
    /\ running = 0
    /\ spawned' = spawned + 1
    /\ IF MoreItems
       THEN TakeItem(spawned + 1)
       ELSE UNCHANGED <<index, threads, pc, attempt, newContent, running>>
    /\ UNCHANGED <<otherVars, commitResult>>
    /\ UNCHANGED <<n, dryRun, useAI, injRes, results, held, disk, dirs,
                   mapEntries, diskMap, successCount, failCount, phase, fixResult>>

\* The loop of a thread whose mapper call has resolved.
Continue(w) ==
    /\ phase = "pmap"
    /\ spawned = ThreadCount
    /\ running = 0
    /\ w <= spawned
    /\ threads[w] = 0
    /\ TakeItem(w)
    /\ UNCHANGED <<otherVars, commitResult>>
    /\ UNCHANGED <<n, dryRun, useAI, injRes, spawned, results, held, disk, dirs,
                   mapEntries, diskMap, successCount, failCount, phase, fixResult>>

(* ------------------- processTask: 1. generate content ------------------ *)

\* retry calls the function again after a retryable failure while calls are
\* left: the first call and `retries` more.
MaxAttempts == Retries + 1

AttemptsLeft(t) == attempt[t] < MaxAttempts

TaskFrame == <<otherVars, n, dryRun, useAI, index, spawned, threads, phase, fixResult,
               commitResult>>

\* writerAgent.generateDocumentation resolves: newContent = response.content
GenSucceed(t) ==
    /\ phase = "pmap" /\ spawned = ThreadCount /\ CanRun(t)
    /\ pc[t] = "generating"
    /\ newContent' = [newContent EXCEPT ![t] = GeneratedContent(t)]
    /\ attempt' = [attempt EXCEPT ![t] = 0]
    /\ Goto(t, "waiting")
    /\ UNCHANGED <<injRes, results, held, disk, dirs, mapEntries,
                   diskMap, successCount, failCount>>
    /\ UNCHANGED TaskFrame

\* A placeholder built from the signature text stored in the map entry.
PlaceholderFromEntryText(t) == generatePlaceholderContent(SymbolName(t), EntryText(t))

\* generatePlaceholderContent(entry.codeRef.symbolName,
\*                            currentSignature.signatureText)
PlaceholderFor(t) == generatePlaceholderContent(SymbolName(t), CurrentText(t))

\* catch (aiError): newContent = generatePlaceholderContent(...)
Fallback(t) ==
    /\ newContent' = [newContent EXCEPT ![t] = PlaceholderFor(t)]
    /\ attempt' = [attempt EXCEPT ![t] = 0]
    /\ Goto(t, "waiting")

\* The call fails with a retryable error (timeout, rate limit, network).
GenRetryableFailure(t) ==
    /\ phase = "pmap" /\ spawned = ThreadCount /\ CanRun(t)
    /\ pc[t] = "generating"
    /\ IF AttemptsLeft(t)
       THEN /\ attempt' = [attempt EXCEPT ![t] = attempt[t] + 1]
            /\ UNCHANGED <<newContent, pc, running>>
       ELSE Fallback(t)
    /\ UNCHANGED <<injRes, results, held, disk, dirs, mapEntries,
                   diskMap, successCount, failCount>>
    /\ UNCHANGED TaskFrame

\* The call fails with an error that is not retried.
GenFatalFailure(t) ==
    /\ phase = "pmap" /\ spawned = ThreadCount /\ CanRun(t)
    /\ pc[t] = "generating"
    /\ Fallback(t)
    /\ UNCHANGED <<injRes, results, held, disk, dirs, mapEntries,
                   diskMap, successCount, failCount>>
    /\ UNCHANGED TaskFrame

(* ---------------- processTask: 2. inject under the file lock ------------ *)

\* A lock keyed by the path as it is spelled in the map entry.
LockKeyAsSpelled(t) == DocRefPath(t)

\* One lock for every documentation file.
LockKeyOfAllFiles(t) == <<"docs">>

\* A lock keyed by the base followed by the path as spelled, "." and ".."
\* kept.
LockKeyUnnormalized(t) == projectBase \o DocRefPath(t)

\* fileMutex.run(docFilePath, ...)
LockKey(t) == DocFilePath(t)

\* The lock is free: the callback starts.  If (!existsSync(dir)) the
\* callback first awaits import('fs').
Acquire(t) ==
    /\ phase = "pmap" /\ spawned = ThreadCount /\ CanRun(t)
    /\ pc[t] = "waiting"
    /\ LockKey(t) \notin held
    /\ held' = held \cup {LockKey(t)}
    /\ Goto(t, IF Dirname(DocFilePath(t)) \in dirs THEN "inject" ELSE "mkdir")
    /\ UNCHANGED <<attempt, newContent, injRes, results, disk, dirs, mapEntries,
                   diskMap, successCount, failCount>>
    /\ UNCHANGED TaskFrame

\* fs.mkdirSync(dir, { recursive: true })
Mkdir(t) ==
    /\ phase = "pmap" /\ spawned = ThreadCount /\ CanRun(t)
    /\ pc[t] = "mkdir"
    /\ dirs' = dirs \cup {Dirname(DocFilePath(t))}
    /\ Goto(t, "inject")
    /\ UNCHANGED <<attempt, newContent, injRes, results, held, disk, mapEntries,
                   diskMap, successCount, failCount>>
    /\ UNCHANGED TaskFrame

\* anchors.some(a => a.id === entry.id) on the file as it is now
anchorExists(t) ==
    /\ disk[DocFilePath(t)] # NoFile
    /\ disk[DocFilePath(t)][EntryId(t)] # Absent

\* An injection that writes whatever the options say.
WriteAlways == TRUE

\* const writeToFile = !options.dryRun
writeToFile == ~dryRun

\* An injection that always targets the first anchor of the file.
FirstAnchorOfFile(t) ==
    CHOOSE i \in 1..(MaxDrifts + 1) :
        /\ DocFilePath(i) = DocFilePath(t)
        /\ \A j \in 1..(MaxDrifts + 1) : DocFilePath(j) = DocFilePath(t) => i <= j

\* The anchor id handed to injectIntoFile / insertIntoFile: entry.id
TargetAnchor(t) == EntryId(t)

\* injectIntoFile: the file read, and the text between the markers of the
\* anchor replaced.
injectIntoContent(body, id, content) == [body EXCEPT ![id] = content]

\* An inserter that gives the new block an id of its own making (0, the id
\* of no entry).
insertUnderFreshId(body, id, content) ==
    LET base == IF body = NoFile THEN EmptyFile ELSE body
    IN [k \in (DOMAIN base) \cup {0} |-> IF k = 0 THEN content ELSE base[k]]

\* insertIntoFile: a new anchor block with the given id is added to the
\* file, which is created when it does not exist.
insertIntoContent(body, id, content) ==
    [(IF body = NoFile THEN EmptyFile ELSE body) EXCEPT ![id] = content]

NewBody(t) ==
    IF anchorExists(t)
    THEN injectIntoContent(disk[DocFilePath(t)], TargetAnchor(t), newContent[t])
    ELSE insertIntoContent(disk[DocFilePath(t)], TargetAnchor(t), newContent[t])

InjectFrame == <<attempt, newContent, results, held, dirs, mapEntries, diskMap,
                 successCount, failCount>>

\* The injector or inserter returns { success: true }.
InjectOk(t) ==
    /\ phase = "pmap" /\ spawned = ThreadCount /\ CanRun(t)
    /\ pc[t] = "inject"
    /\ injRes' = [injRes EXCEPT ![t] = "ok"]
    /\ disk' = IF writeToFile
               THEN [disk EXCEPT ![DocFilePath(t)] = NewBody(t)]
               ELSE disk
    /\ Goto(t, "injected")
    /\ UNCHANGED InjectFrame
    /\ UNCHANGED TaskFrame

\* It returns { success: false, error }: the file is left as it was.
InjectFails(t) ==
    /\ phase = "pmap" /\ spawned = ThreadCount /\ CanRun(t)
    /\ pc[t] = "inject"
    /\ injRes' = [injRes EXCEPT ![t] = "failed"]
    /\ Goto(t, "injected")
    /\ UNCHANGED disk
    /\ UNCHANGED InjectFrame
    /\ UNCHANGED TaskFrame

\* It throws: the file is left as it was.
InjectThrows(t) ==
    /\ phase = "pmap" /\ spawned = ThreadCount /\ CanRun(t)
    /\ pc[t] = "inject"
    /\ injRes' = [injRes EXCEPT ![t] = "threw"]
    /\ Goto(t, "injected")
    /\ UNCHANGED disk
    /\ UNCHANGED InjectFrame
    /\ UNCHANGED TaskFrame

\* A test that takes every result for a success.
AlwaysSuccess(r) == TRUE

\* if (result.success)
resultSuccess(r) == r = "ok"

\* An update that stores the new signature text and leaves the hash.
UpdatedMapTextOnly(t) ==
    IF mapEntries[EntryId(t)] # NoEntry
    THEN [mapEntries EXCEPT ![EntryId(t)] =
              [hash |-> mapEntries[EntryId(t)].hash, text |-> CurrentText(t)]]
    ELSE [mapEntries EXCEPT ![EntryId(t)] =
              [hash |-> EntryHash(t), text |-> EntryText(t)]]

\* A map rebuilt from the record alone: every other entry is dropped.
UpdatedMapRebuilt(t) ==
    [id \in Records |->
        IF id = EntryId(t) THEN [hash |-> CurrentHash(t), text |-> CurrentText(t)]
        ELSE NoEntry]

\* mapManager.updateEntry(entry.id, { codeSignatureHash: newHash,
\* codeSignatureText }) when the entry is in the map, else addEntry(entry)
UpdatedMap(t) ==
    IF mapEntries[EntryId(t)] # NoEntry
    THEN [mapEntries EXCEPT ![EntryId(t)] =
              [hash |-> CurrentHash(t), text |-> CurrentText(t)]]
    ELSE [mapEntries EXCEPT ![EntryId(t)] =
              [hash |-> EntryHash(t), text |-> EntryText(t)]]

UpdateMap(t) ==
    /\ phase = "pmap" /\ spawned = ThreadCount /\ CanRun(t)
    /\ pc[t] = "injected"
    /\ resultSuccess(injRes[t]) /\ ~dryRun
    /\ mapEntries' = UpdatedMap(t)
    /\ Goto(t, "saving")
    /\ UNCHANGED <<attempt, newContent, injRes, results, held, disk, dirs,
                   diskMap, successCount, failCount>>
    /\ UNCHANGED TaskFrame

\* mapManager.save(): the whole in-memory map is written to the map file.
Serialized(m) == m

\* A fix that leaves the map file for the save at the end of the run.
MapFileUntouched(t) == diskMap

\* "Save map immediately to keep it in sync with the file system"
MapFileAfterFix(t) == Serialized(mapEntries)

Save(t) ==
    /\ phase = "pmap" /\ spawned = ThreadCount /\ CanRun(t)
    /\ pc[t] = "saving"
    /\ diskMap' = MapFileAfterFix(t)
    /\ Goto(t, "saved")
    /\ UNCHANGED <<attempt, newContent, injRes, results, held, disk, dirs,
                   mapEntries, successCount, failCount>>
    /\ UNCHANGED TaskFrame

\* mapManager.save() throws because the map file cannot be written: the map
\* file is left as it was and the catch (e) of the callback is entered,
\* after the documentation file was written and the entry updated.
SaveThrows(t) ==
    /\ phase = "pmap" /\ spawned = ThreadCount /\ CanRun(t)
    /\ pc[t] = "saving"
    /\ injRes' = [injRes EXCEPT ![t] = "threw"]
    /\ Goto(t, "injected")
    /\ UNCHANGED <<attempt, newContent, results, held, disk, dirs,
                   mapEntries, diskMap, successCount, failCount>>
    /\ UNCHANGED TaskFrame

\* successCount++ on the success path
SuccessDelta(r) == IF resultSuccess(r) THEN 1 ELSE 0

\* A count that misses the failures of the catch block.
FailDeltaNoCatch(r) == IF r = "failed" THEN 1 ELSE 0

\* failCount++ on the failed-result path and in the catch
FailDelta(r) == IF resultSuccess(r) THEN 0 ELSE 1

\* The FixDetail returned by the callback.
Outcome(t) ==
    IF resultSuccess(injRes[t])
    THEN [success |-> TRUE, newContent |-> newContent[t]]
    ELSE [success |-> FALSE, newContent |-> NoContent]

\* A task that goes back to wait for the lock after a failure.
RequeueOnFailure(r) == IF r = "ok" THEN "succeeded" ELSE "waiting"

\* Where processTask ends: return { ..., success: true, newContent } or
\* return { ..., success: false, error }
TerminalOf(r) == IF resultSuccess(r) THEN "succeeded" ELSE "failed"

\* A lock that is released only when the callback returns a success.
HeldUnlessSuccess(t) ==
    IF resultSuccess(injRes[t]) THEN held \ {LockKey(t)} ELSE held

\* fileMutex.run: the lock is released when the callback has returned,
\* whatever it returned.
HeldAfterRun(t) == held \ {LockKey(t)}

\* The callback returns its FixDetail, the lock is released, and pMap stores
\* the result: results[curIndex] = await mapper(...)
Finish(t) ==
    /\ phase = "pmap" /\ spawned = ThreadCount /\ CanRun(t)
    /\ \/ pc[t] = "saved"
       \/ pc[t] = "injected" /\ (dryRun \/ ~resultSuccess(injRes[t]))
    /\ successCount' = successCount + SuccessDelta(injRes[t])
    /\ failCount' = failCount + FailDelta(injRes[t])
    /\ results' = [results EXCEPT ![t] = Outcome(t)]
    /\ held' = HeldAfterRun(t)
    /\ threads' = [w \in DOMAIN threads |-> IF threads[w] = t THEN 0 ELSE threads[w]]
    /\ newContent' = [newContent EXCEPT ![t] = NoContent]
    /\ injRes' = [injRes EXCEPT ![t] = "none"]
    /\ Goto(t, TerminalOf(injRes[t]))
    /\ UNCHANGED <<attempt, disk, dirs, mapEntries, diskMap>>
    /\ UNCHANGED <<otherVars, commitResult>>
    /\ UNCHANGED <<n, dryRun, useAI, index, spawned, phase, fixResult>>

(* --------------------------- after pMap -------------------------------- *)

\* await Promise.all(threads) has resolved.
pMapDone ==
    /\ spawned = ThreadCount
    /\ \A w \in DOMAIN threads : threads[w] = 0
    /\ ~MoreItems

\* if (!options.dryRun && successCount > 0) mapManager.save()
FinalSave ==
    /\ phase = "pmap" /\ running = 0
    /\ pMapDone
    /\ diskMap' = IF ~dryRun /\ successCount > 0 THEN Serialized(mapEntries)
                  ELSE diskMap
    /\ phase' = "summary"
    /\ UNCHANGED <<otherVars, commitResult>>
    /\ UNCHANGED <<n, dryRun, useAI, pc, attempt, newContent, injRes, index,
                   spawned, threads, results, held, disk, dirs, mapEntries,
                   successCount, failCount, running, fixResult>>

\* The outcomes of gitHelper.autoCommit: it returns a result and never throws.
CommitOutcomes == {"committed", "commit_failed"}

AfterSummaryFrame ==
    <<otherVars, n, dryRun, useAI, pc, attempt, newContent, injRes, index,
      spawned, threads, results, held, disk, dirs, mapEntries, diskMap,
      successCount, failCount, running, fixResult>>

\* if (options.dryRun) { ... } else if (options.autoCommit && successCount > 0)
\* is false: options.autoCommit is read here only, and is chosen here.
NoCommit ==
    /\ phase = "summary"
    /\ \E autoCommit \in BOOLEAN : dryRun \/ ~autoCommit \/ successCount = 0
    /\ commitResult' = "skipped"
    /\ phase' = "summarized"
    /\ UNCHANGED AfterSummaryFrame

\* const commitResult = gitHelper.autoCommit(Array.from(modifiedFiles),
\* symbolNames, false); its result is logged
AutoCommit(outcome) ==
    /\ phase = "summary"
    /\ ~dryRun /\ successCount > 0
    /\ commitResult' = outcome
    /\ phase' = "summarized"
    /\ UNCHANGED AfterSummaryFrame

\* A result that a failed commit turns into a failure.
SuccessIfCommitted == failCount = 0 /\ commitResult # "commit_failed"

\* success: failCount === 0
SuccessOfRun == failCount = 0

\* return { totalFixes: fixes.length, successfulFixes: successCount,
\*          failedFixes: failCount, fixes, success: failCount === 0 }
Return ==
    /\ phase = "summarized"
    /\ fixResult' = [totalFixes |-> Cardinality(DOMAIN results),
                     successfulFixes |-> successCount,
                     failedFixes |-> failCount,
                     success |-> SuccessOfRun]
    /\ phase' = "returned"
    /\ UNCHANGED <<otherVars, commitResult>>
    /\ UNCHANGED <<n, dryRun, useAI, pc, attempt, newContent, injRes, index,
                   spawned, threads, results, held, disk, dirs, mapEntries,
                   diskMap, successCount, failCount, running>>

(* ------------------------------ Next ----------------------------------- *)

Next ==
    \/ Spawn
    \/ \E w \in 1..ThreadCount : Continue(w)
    \/ \E t \in Records : GenSucceed(t)
    \/ \E t \in Records : GenRetryableFailure(t)
    \/ \E t \in Records : GenFatalFailure(t)
    \/ \E t \in Records : Acquire(t)
    \/ \E t \in Records : Mkdir(t)
    \/ \E t \in Records : InjectOk(t)
    \/ \E t \in Records : InjectFails(t)
    \/ \E t \in Records : InjectThrows(t)
    \/ \E t \in Records : UpdateMap(t)
    \/ \E t \in Records : Save(t)
    \/ \E t \in Records : Finish(t)
    \/ FinalSave
    \/ NoCommit
    \/ \E outcome \in CommitOutcomes : AutoCommit(outcome)
    \/ Return

Spec == Init /\ [][Next]_vars

\* Every generator call, retry delay and file operation returns, and the
\* event loop runs a continuation that is ready.
FairSpec == Spec /\ WF_vars(Next)

\* A run in which mapManager.save() may throw.
SaveFaultNext ==
    \/ Spawn
    \/ \E w \in 1..ThreadCount : Continue(w)
    \/ \E t \in Records : GenSucceed(t)
    \/ \E t \in Records : GenRetryableFailure(t)
    \/ \E t \in Records : GenFatalFailure(t)
    \/ \E t \in Records : Acquire(t)
    \/ \E t \in Records : Mkdir(t)
    \/ \E t \in Records : InjectOk(t)
    \/ \E t \in Records : InjectFails(t)
    \/ \E t \in Records : InjectThrows(t)
    \/ \E t \in Records : UpdateMap(t)
    \/ \E t \in Records : Save(t)
    \/ \E t \in Records : SaveThrows(t)
    \/ \E t \in Records : Finish(t)
    \/ FinalSave
    \/ NoCommit
    \/ \E outcome \in CommitOutcomes : AutoCommit(outcome)
    \/ Return

SaveFaultSpec == Init /\ [][SaveFaultNext]_vars

(* ======================================================================= *)
(*        AIAgent.generateDocumentation (packages/ai/ai-agent.ts)          *)
(* ======================================================================= *)

\* Largest retry.maxAttempts a configuration sets.
MaxConfiguredAttempts == 3

\* this.retryConfig = config.retry || { maxAttempts: 3, delayMs: 1000 }
DefaultMaxAttempts == 3

\* What a call of fn comes to: a value, or an error that is or is not an
\* instance of AIProviderError and carries a code ("" when it has none).
Resolved == [ok |-> TRUE, instance |-> FALSE, code |-> ""]

Rejection(inst, code) == [ok |-> FALSE, instance |-> inst, code |-> code]

\* What generateText of the SDK throws inside VercelAIProvider, and the
\* error of the validation after sanitization.
SdkFailures ==
    { [name |-> "APICallError", statusCode |-> 429],
      [name |-> "APICallError", statusCode |-> 500],
      [name |-> "Error",        statusCode |-> 0] }

\* VercelAIProvider.generateDocumentation, catch (error): an object literal
\* { code, message, provider, originalError } is thrown, with code
\* RATE_LIMIT for an APICallError of status 429 and GENERATION_FAILED
\* otherwise.  An object literal is no instance of a class.
VercelError(err) ==
    Rejection(FALSE,
              IF err.name = "APICallError" /\ err.statusCode = 429
              THEN "RATE_LIMIT" ELSE "GENERATION_FAILED")

\* Errors of a provider that throws instances of AIProviderError, and an
\* error without code.
ClassErrors ==
    { Rejection(TRUE, c) :
        c \in {"TIMEOUT", "RATE_LIMIT", "NETWORK_ERROR", "INVALID_API_KEY"} }
    \cup { Rejection(FALSE, "") }

\* The errors this.provider.generateDocumentation(request) can throw.
ProviderErrors ==
    IF agProvider = "vercel"
    THEN { VercelError(err) : err \in SdkFailures }
    ELSE ClassErrors

\* isRetryableError: error instanceof AIProviderError && error.code, and
\* the code one of TIMEOUT, RATE_LIMIT, NETWORK_ERROR
isRetryableError(error) ==
    /\ error.instance
    /\ error.code # ""
    /\ error.code \in {"TIMEOUT", "RATE_LIMIT", "NETWORK_ERROR"}

\* A test that allows one attempt more.
hasAttemptsLeftInclusive == agAttempt <= agMax

\* const hasAttemptsLeft = attempt < this.retryConfig.maxAttempts
hasAttemptsLeft == agAttempt < agMax

FixOff ==
    /\ n = 0
    /\ dryRun = TRUE
    /\ useAI = FALSE
    /\ pc = <<>>
    /\ attempt = <<>>
    /\ newContent = <<>>
    /\ injRes = <<>>
    /\ index = 0
    /\ spawned = 0
    /\ threads = [w \in 1..PoolWidth |-> 0]
    /\ results = <<>>
    /\ held = {}
    /\ disk = [f \in AllFiles |-> FileAtStart(f)]
    /\ dirs = DirsAtStart
    /\ mapEntries = <<>>
    /\ diskMap = <<>>
    /\ successCount = 0
    /\ failCount = 0
    /\ running = 0
    /\ phase = "off"
    /\ fixResult = [totalFixes |-> 0, successfulFixes |-> 0, failedFixes |-> 0,
                    success |-> FALSE]
    /\ commitResult = "none"

\* generateDocumentation: this.executeWithRetry(() =>
\* this.provider.generateDocumentation(request)), attempt = 1
AgentInit ==
    /\ agMax \in (1..MaxConfiguredAttempts) \cup {DefaultMaxAttempts}
    /\ agProvider \in {"vercel", "class"}
    /\ agState = "calling"
    /\ agAttempt = 1
    /\ agTrace = <<>>
    /\ agDelays = 0
    /\ agThrown = "none"
    /\ FixOff
    /\ ProviderOff
    /\ GitOff
    /\ PoolOff
    /\ InitCommandOff
    /\ SmartOff
    /\ DetectOff
    /\ StoreOff
    /\ ContentOff

\* return await fn()
AgentCallResolves ==
    /\ agState = "calling"
    /\ agTrace' = Append(agTrace, Resolved)
    /\ agState' = "returned"
    /\ UNCHANGED <<agMax, agProvider, agAttempt, agDelays, agThrown>>
    /\ UNCHANGED notAgentVars

\* catch (error): retry after the delay, or throw error
AgentCallRejects(error) ==
    /\ agState = "calling"
    /\ agTrace' = Append(agTrace, error)
    /\ IF isRetryableError(error) /\ hasAttemptsLeft
       THEN /\ agState' = "delay"
            /\ UNCHANGED agThrown
       ELSE /\ agState' = "thrown"
            /\ agThrown' = error
    /\ UNCHANGED <<agMax, agProvider, agAttempt, agDelays>>
    /\ UNCHANGED notAgentVars

\* await this.delay(this.retryConfig.delayMs);
\* return this.executeWithRetry(fn, attempt + 1)
AgentDelayElapses ==
    /\ agState = "delay"
    /\ agDelays' = agDelays + 1
    /\ agAttempt' = agAttempt + 1
    /\ agState' = "calling"
    /\ UNCHANGED <<agMax, agProvider, agTrace, agThrown>>
    /\ UNCHANGED notAgentVars

AgentNext ==
    \/ AgentCallResolves
    \/ \E error \in ProviderErrors : AgentCallRejects(error)
    \/ AgentDelayElapses

AgentSpec == AgentInit /\ [][AgentNext]_vars

(* ------------------------- the map store ------------------------------- *)

\* The entries array of the map: a sequence of entries
\* [id, codeSignatureHash, codeSignatureText].

\* entries.findIndex(e => e.id === id), counted from 1; 0 when there is none
FindIndex(entries, id) ==
    IF \E i \in 1..Len(entries) : entries[i].id = id
    THEN CHOOSE i \in 1..Len(entries) :
            /\ entries[i].id = id
            /\ \A j \in 1..(i - 1) : entries[j].id # id
    ELSE 0

\* A check that counts an absent entry as drifted.
hasDriftOrAbsent(entries, id, currentHash) ==
    LET i == FindIndex(entries, id)
    IN  i = 0 \/ entries[i].codeSignatureHash # currentHash

\* hasDrift(id, currentHash): the entry is looked up by id; an absent entry
\* has no drift.
hasDrift(entries, id, currentHash) ==
    LET i == FindIndex(entries, id)
    IN  /\ i # 0
        /\ entries[i].codeSignatureHash # currentHash

\* getEntries() of a map held as a table from id to entry, in id order.
RECURSIVE EntryList(_, _)
EntryList(m, k) ==
    IF k = 0 THEN <<>>
    ELSE IF m[k] = NoEntry THEN EntryList(m, k - 1)
    ELSE Append(EntryList(m, k - 1),
                [id |-> k, codeSignatureHash |-> m[k].hash,
                 codeSignatureText |-> m[k].text])

\* The check made by detectDrift for the entry of record t over a map.
DriftRemains(m, t) == hasDrift(EntryList(m, n), EntryId(t), CurrentHash(t))

(* ======================================================================= *)
(*      DoctypeMapManager: addEntry, updateEntry, removeEntry, hasDrift    *)
(* ======================================================================= *)

\* Largest number of calls made of the map store in one run.
MaxStoreCalls == 3

\* Largest id, and largest hash, of the entries and arguments of the calls.
MaxStoreId == 2

MaxStoreHash == 2

StoreIds == 1..MaxStoreId

StoreHashes == 1..MaxStoreHash

StoreEntry(id, hash) ==
    [id |-> id, codeSignatureHash |-> hash, codeSignatureText |-> 100 + hash]

StoreEntries == {StoreEntry(i, h) : i \in StoreIds, h \in StoreHashes}

\* Partial<DoctypeMapEntry>: any field of an entry may be given, the id too.
Partials ==
    {[codeSignatureHash |-> h] : h \in StoreHashes}
        \cup {[id |-> i] : i \in StoreIds}
        \cup {[id |-> i, codeSignatureHash |-> h] : i \in StoreIds, h \in StoreHashes}

\* updateEntry merges the fields of the partial into the entry.
Merge(entry, partial) ==
    [f \in DOMAIN entry |-> IF f \in DOMAIN partial THEN partial[f] ELSE entry[f]]

\* The entries without those of the id.
RECURSIVE Without(_, _)
Without(entries, id) ==
    IF entries = <<>> THEN <<>>
    ELSE IF Head(entries).id = id THEN Without(Tail(entries), id)
    ELSE <<Head(entries)>> \o Without(Tail(entries), id)

\* The maps a run starts from: as loaded, with no id twice.
StoreMapsAtStart ==
    {<<>>} \cup {<<e>> : e \in StoreEntries}
           \cup {<<StoreEntry(1, h), StoreEntry(2, g)>> : h, g \in StoreHashes}

StoreInit ==
    /\ stEntries \in StoreMapsAtStart
    /\ stCalls = 0
    /\ stLast = NoCall
    /\ FixOff
    /\ ProviderOff
    /\ GitOff
    /\ PoolOff
    /\ InitCommandOff
    /\ SmartOff
    /\ AgentOff
    /\ DetectOff
    /\ ContentOff

Called(op, id, hash, result) ==
    /\ stCalls < MaxStoreCalls
    /\ stCalls' = stCalls + 1
    /\ stLast' = [op |-> op, id |-> id, hash |-> hash, result |-> result]
    /\ UNCHANGED notStoreVars

\* An addEntry that reports the duplicate and appends the entry all the same.
addEntryThenFail(entry) ==
    /\ Called("addEntry", entry.id, entry.codeSignatureHash,
              IF FindIndex(stEntries, entry.id) # 0 THEN "DuplicateIdError" ELSE "ok")
    /\ stEntries' = Append(stEntries, entry)

\* addEntry(entry): fails when the id is already in the map
addEntry(entry) ==
    /\ IF FindIndex(stEntries, entry.id) # 0
       THEN /\ Called("addEntry", entry.id, entry.codeSignatureHash, "DuplicateIdError")
            /\ UNCHANGED stEntries
       ELSE /\ Called("addEntry", entry.id, entry.codeSignatureHash, "ok")
            /\ stEntries' = Append(stEntries, entry)

\* updateEntry(id, partial): merges the fields; fails when the id is absent
updateEntry(id, partial) ==
    LET i == FindIndex(stEntries, id)
    IN  IF i = 0
        THEN /\ Called("updateEntry", id, 0, "NotFoundError")
             /\ UNCHANGED stEntries
        ELSE /\ Called("updateEntry", id, 0, "ok")
             /\ stEntries' = [stEntries EXCEPT ![i] = Merge(stEntries[i], partial)]

\* A removeEntry that throws when the id is absent.
removeEntryOrThrow(id) ==
    /\ Called("removeEntry", id, 0,
              IF FindIndex(stEntries, id) # 0 THEN "removed" ELSE "NotFoundError")
    /\ stEntries' = Without(stEntries, id)

\* removeEntry(id): returns whether anything was removed
removeEntry(id) ==
    /\ Called("removeEntry", id, 0,
              IF FindIndex(stEntries, id) # 0 THEN "removed" ELSE "absent")
    /\ stEntries' = Without(stEntries, id)

\* hasDrift(id, currentHash), called as detectDrift calls it
CallHasDrift(id, currentHash) ==
    /\ Called("hasDrift", id, currentHash, hasDrift(stEntries, id, currentHash))
    /\ UNCHANGED stEntries

StoreNext ==
    \/ \E entry \in StoreEntries : addEntry(entry)
    \/ \E id \in StoreIds, partial \in Partials : updateEntry(id, partial)
    \/ \E id \in StoreIds : removeEntry(id)
    \/ \E id \in StoreIds, currentHash \in StoreHashes : CallHasDrift(id, currentHash)

StoreSpec == StoreInit /\ [][StoreNext]_vars

(* ======================================================================= *)
(*      detectDrift (packages/cli/src/services/drift-detector.ts)          *)
(* ======================================================================= *)

\* Largest number of entries in the map given to detectDrift.
MaxMapEntries == 3

\* The hash stored in the map for the entry of index i, and a hash the
\* analyzer never computes for it; 0 stands for no hash.
StoredHash(i) == 10 * i

NoHash == 0

\* The map: entry i has the id i and the symbol name i.
MapOfSize(k) ==
    [i \in 1..k |-> [id |-> i, symbolName |-> i,
                     codeSignatureHash |-> StoredHash(i),
                     codeSignatureText |-> 100 + i]]

\* A symbol of the code file that no entry names.
OtherSignature == [symbolName |-> 0, hash |-> 99]

\* What can be the case of the code of one entry.
CodeCases == {"file_missing", "analyzer_throws", "no_signature", "other_symbol",
              "no_hash", "same_hash", "new_hash"}

\* existsSync(codeFilePath)
fileExists(i) == detEnv[i] # "file_missing"

\* analyzer.analyzeFile(codeFilePath) throws
analyzerThrows(i) == detEnv[i] = "analyzer_throws"

\* analyzer.analyzeFile(codeFilePath): the signatures of the file
analyzeFile(i) ==
    CASE detEnv[i] = "no_signature" -> <<>>
      [] detEnv[i] = "other_symbol" -> <<OtherSignature>>
      [] detEnv[i] = "no_hash" ->
            <<[symbolName |-> detEntries[i].symbolName, hash |-> NoHash]>>
      [] detEnv[i] = "same_hash" ->
            <<OtherSignature,
              [symbolName |-> detEntries[i].symbolName, hash |-> StoredHash(i)]>>
      [] detEnv[i] = "new_hash" ->
            <<OtherSignature,
              [symbolName |-> detEntries[i].symbolName, hash |-> StoredHash(i) + 1]>>
      [] OTHER -> <<>>

\* A lookup that takes the first signature of the file, whatever its name.
FirstSignature(signatures, symbolName) == IF signatures = <<>> THEN 0 ELSE 1

\* signatures.find(sig => sig.symbolName === entry.codeRef.symbolName):
\* the position of the first such signature, 0 when there is none
FindSignature(signatures, symbolName) ==
    IF \E j \in 1..Len(signatures) : signatures[j].symbolName = symbolName
    THEN CHOOSE j \in 1..Len(signatures) :
            /\ signatures[j].symbolName = symbolName
            /\ \A k \in 1..(j - 1) : signatures[k].symbolName # symbolName
    ELSE 0

\* A record that takes both hashes from the map entry.
StaleDriftInfo(entry, currentSignature) ==
    [id |-> entry.id,
     currentHash |-> entry.codeSignatureHash,
     oldHash |-> entry.codeSignatureHash]

\* drifts.push({ entry, oldSignature, currentSignature, currentHash,
\*               oldHash: entry.codeSignatureHash })
DriftInfo(entry, currentSignature) ==
    [id |-> entry.id,
     currentHash |-> currentSignature.hash,
     oldHash |-> entry.codeSignatureHash]

\* missing.push({ entry, reason, codeFilePath })
MissingSymbolInfo(entry, reason) == [id |-> entry.id, reason |-> reason]

\* A loop without the try/catch around the body.
NotCaught == FALSE

\* try { ... } catch (error) { logger?.error(...) } around the loop body
CaughtPerEntry == TRUE

\* The entry the loop is at, its signature and hash.
DetCurrent == detIdx + 1

DetEntry == detEntries[DetCurrent]

DetPosition == FindSignature(analyzeFile(DetCurrent), DetEntry.symbolName)

DetSignature == analyzeFile(DetCurrent)[DetPosition]

InLoop == detState = "loop" /\ detIdx < Len(detEntries)

DetectInit ==
    /\ \E k \in 1..MaxMapEntries :
          /\ detEntries = MapOfSize(k)
          /\ detEnv \in [1..k -> CodeCases]
    /\ detIdx = 0
    /\ detDrifts = <<>>
    /\ detMissing = <<>>
    /\ detState = "loop"
    /\ FixOff
    /\ ProviderOff
    /\ GitOff
    /\ PoolOff
    /\ InitCommandOff
    /\ SmartOff
    /\ AgentOff
    /\ StoreOff
    /\ ContentOff

DetFrame == <<detEntries, detEnv, notDetectVars>>

\* if (!existsSync(codeFilePath)) { missing.push(file_not_found); continue }
DetectFileNotFound ==
    /\ InLoop
    /\ ~fileExists(DetCurrent)
    /\ detMissing' = Append(detMissing, MissingSymbolInfo(DetEntry, "file_not_found"))
    /\ detIdx' = detIdx + 1
    /\ UNCHANGED <<detDrifts, detState>>
    /\ UNCHANGED DetFrame

\* analyzer.analyzeFile throws: the catch logs and the loop goes on
DetectAnalyzerThrows ==
    /\ InLoop
    /\ fileExists(DetCurrent) /\ analyzerThrows(DetCurrent)
    /\ IF CaughtPerEntry
       THEN detIdx' = detIdx + 1 /\ UNCHANGED detState
       ELSE detState' = "aborted" /\ UNCHANGED detIdx
    /\ UNCHANGED <<detDrifts, detMissing>>
    /\ UNCHANGED DetFrame

\* if (!currentSignature) { missing.push(symbol_not_found); continue }
DetectSymbolNotFound ==
    /\ InLoop
    /\ fileExists(DetCurrent) /\ ~analyzerThrows(DetCurrent)
    /\ DetPosition = 0
    /\ detMissing' = Append(detMissing, MissingSymbolInfo(DetEntry, "symbol_not_found"))
    /\ detIdx' = detIdx + 1
    /\ UNCHANGED <<detDrifts, detState>>
    /\ UNCHANGED DetFrame

\* if (!currentHash) { logger?.warn(...); continue }
DetectNoHash ==
    /\ InLoop
    /\ fileExists(DetCurrent) /\ ~analyzerThrows(DetCurrent)
    /\ DetPosition # 0
    /\ DetSignature.hash = NoHash
    /\ detIdx' = detIdx + 1
    /\ UNCHANGED <<detDrifts, detMissing, detState>>
    /\ UNCHANGED DetFrame

\* mapManager.hasDrift(entry.id, currentHash) is false
DetectNoDrift ==
    /\ InLoop
    /\ fileExists(DetCurrent) /\ ~analyzerThrows(DetCurrent)
    /\ DetPosition # 0
    /\ DetSignature.hash # NoHash
    /\ ~hasDrift(detEntries, DetEntry.id, DetSignature.hash)
    /\ detIdx' = detIdx + 1
    /\ UNCHANGED <<detDrifts, detMissing, detState>>
    /\ UNCHANGED DetFrame

\* if (mapManager.hasDrift(entry.id, currentHash)) { drifts.push(...) }
DetectDriftFound ==
    /\ InLoop
    /\ fileExists(DetCurrent) /\ ~analyzerThrows(DetCurrent)
    /\ DetPosition # 0
    /\ DetSignature.hash # NoHash
    /\ hasDrift(detEntries, DetEntry.id, DetSignature.hash)
    /\ detDrifts' = Append(detDrifts, DriftInfo(DetEntry, DetSignature))
    /\ detIdx' = detIdx + 1
    /\ UNCHANGED <<detMissing, detState>>
    /\ UNCHANGED DetFrame

\* return { drifts, missing }
DetectReturn ==
    /\ detState = "loop"
    /\ detIdx = Len(detEntries)
    /\ detState' = "returned"
    /\ UNCHANGED <<detIdx, detDrifts, detMissing>>
    /\ UNCHANGED DetFrame

DetectNext ==
    \/ DetectFileNotFound
    \/ DetectAnalyzerThrows
    \/ DetectSymbolNotFound
    \/ DetectNoHash
    \/ DetectNoDrift
    \/ DetectDriftFound
    \/ DetectReturn

DetectSpec == DetectInit /\ [][DetectNext]_vars

\* The loop body returns for every entry.
DetectFairSpec == DetectSpec /\ WF_vars(DetectNext)

(* ----------------- a run of check (detectDrift) or of fix --------------- *)

CheckOrFixInit == Init \/ DetectInit

CheckOrFixNext ==
    \/ Spawn
    \/ \E w \in 1..ThreadCount : Continue(w)
    \/ \E t \in Records : GenSucceed(t)
    \/ \E t \in Records : GenRetryableFailure(t)
    \/ \E t \in Records : GenFatalFailure(t)
    \/ \E t \in Records : Acquire(t)
    \/ \E t \in Records : Mkdir(t)
    \/ \E t \in Records : InjectOk(t)
    \/ \E t \in Records : InjectFails(t)
    \/ \E t \in Records : InjectThrows(t)
    \/ \E t \in Records : UpdateMap(t)
    \/ \E t \in Records : Save(t)
    \/ \E t \in Records : Finish(t)
    \/ FinalSave
    \/ NoCommit
    \/ \E outcome \in CommitOutcomes : AutoCommit(outcome)
    \/ Return
    \/ DetectFileNotFound
    \/ DetectAnalyzerThrows
    \/ DetectSymbolNotFound
    \/ DetectNoHash
    \/ DetectNoDrift
    \/ DetectDriftFound
    \/ DetectReturn

CheckOrFixSpec == CheckOrFixInit /\ [][CheckOrFixNext]_vars

(* ======================================================================= *)
(*   Anchor extraction and content injection (content package: the          *)
(*   markdown parser, the extractor and the ContentInjector)                *)
(* ======================================================================= *)

\* A document is the sequence of its lines, a string the sequence of the
\* lines that split('\n') gives: the empty string is one empty line.

\* Longest document, and largest anchor id in it.
MaxDocLines == 5

MaxAnchorIds == 2

AnchorIds == 1..MaxAnchorIds

\* <!-- doctype:start id="..." code_ref="..." -->
StartMarker(id) == [kind |-> "start", id |-> id, text |-> ""]

\* <!-- doctype:end id="..." -->
EndMarker(id) == [kind |-> "end", id |-> id, text |-> ""]

\* Any other line.
TextLine(text) == [kind |-> "text", id |-> 0, text |-> text]

EmptyString == <<TextLine("")>>

DocLines ==
    {StartMarker(id) : id \in AnchorIds} \cup {EndMarker(id) : id \in AnchorIds}
        \cup {TextLine("a")}

Documents == UNION {[1..k -> DocLines] : k \in 1..MaxDocLines}

\* The replacement texts handed to the injector.
NewContents == {<<TextLine("n")>>, <<TextLine("n"), TextLine("m")>>}

\* lines.join('\n'): no line at all gives the empty string
JoinLines(lines) == IF lines = <<>> THEN EmptyString ELSE lines

StartsOf(doc) == {i \in 1..Len(doc) : doc[i].kind = "start"}

EndsOf(doc) == {j \in 1..Len(doc) : doc[j].kind = "end"}

\* A rule by which the last block of an id wins.
IsShadowed(doc, i) ==
    \E k \in StartsOf(doc) : k > i /\ doc[k].id = doc[i].id

\* duplicate id: a start marker whose id an earlier start marker carries
IsDuplicate(doc, i) ==
    \E k \in StartsOf(doc) : k < i /\ doc[k].id = doc[i].id

\* The end markers that can close the start marker of line i.
EndsAfter(doc, i) == {j \in EndsOf(doc) : j > i /\ doc[j].id = doc[i].id}

\* A start marker that has no end marker of its id after it.
IsOpen(doc, i) == EndsAfter(doc, i) = {}

\* A parser with one open anchor at a time: a start marker that comes after
\* an unclosed one is inside its region and is never closed.
MatchingEndUnlessInsideOpen(doc, i) ==
    IF EndsAfter(doc, i) = {} \/ (\E k \in StartsOf(doc) : k < i /\ IsOpen(doc, k))
    THEN 0
    ELSE CHOOSE j \in EndsAfter(doc, i) : \A m \in EndsAfter(doc, i) : j <= m

\* The matching end marker of the start marker of line i: the first end
\* marker of the same id after it, 0 when there is none before end of file.
MatchingEnd(doc, i) ==
    IF EndsAfter(doc, i) = {} THEN 0
    ELSE CHOOSE j \in EndsAfter(doc, i) : \A m \in EndsAfter(doc, i) : j <= m

\* Anchor: the text between the two marker lines is the content.
AnchorAt(doc, i) ==
    [id |-> doc[i].id,
     startLine |-> i,
     endLine |-> MatchingEnd(doc, i),
     content |-> JoinLines(SubSeq(doc, i + 1, MatchingEnd(doc, i) - 1))]

AnchorError(kind, id, line) == [kind |-> kind, id |-> id, line |-> line]

\* extract(filePath, content) -> { anchors, errors }
extractAnchors(doc) ==
    [anchors |->
        {AnchorAt(doc, i) :
            i \in {k \in StartsOf(doc) : ~IsDuplicate(doc, k) /\ MatchingEnd(doc, k) # 0}},
     errors |->
        {AnchorError("duplicate", doc[i].id, i) :
            i \in {k \in StartsOf(doc) : IsDuplicate(doc, k)}}
          \cup {AnchorError("unclosed", doc[i].id, i) :
            i \in {k \in StartsOf(doc) : MatchingEnd(doc, k) = 0}}
          \cup {AnchorError("orphaned", doc[j].id, j) :
            j \in {k \in EndsOf(doc) :
                     ~\E i \in StartsOf(doc) : i < k /\ doc[i].id = doc[k].id}}]

AnchorsWithId(doc, anchorId) ==
    {a \in extractAnchors(doc).anchors : a.id = anchorId}

\* An injector that writes over the end marker line too.
injectOverEndMarker(doc, anchorId, replacement) ==
    IF AnchorsWithId(doc, anchorId) = {}
    THEN [success |-> FALSE, error |-> "AnchorNotFoundError", content |-> doc]
    ELSE LET a == CHOOSE x \in AnchorsWithId(doc, anchorId) : TRUE
         IN  [success |-> TRUE, error |-> "none",
              content |-> SubSeq(doc, 1, a.startLine) \o replacement
                              \o SubSeq(doc, a.endLine + 1, Len(doc))]

\* An injector that adds a block at the end of the file for an anchor that
\* is not there.
injectOrAppend(doc, anchorId, replacement) ==
    IF AnchorsWithId(doc, anchorId) = {}
    THEN [success |-> TRUE, error |-> "none",
          content |-> doc \o <<StartMarker(anchorId)>> \o replacement
                          \o <<EndMarker(anchorId)>>]
    ELSE LET a == CHOOSE x \in AnchorsWithId(doc, anchorId) : TRUE
         IN  [success |-> TRUE, error |-> "none",
              content |-> SubSeq(doc, 1, a.startLine) \o replacement
                              \o SubSeq(doc, a.endLine, Len(doc))]

\* injectIntoContent(content, anchorId, newContent): (text before the start
\* marker) + start marker line + '\n' + newContent + '\n' + end marker line +
\* (text after the end marker)
injectIntoText(doc, anchorId, replacement) ==
    IF AnchorsWithId(doc, anchorId) = {}
    THEN [success |-> FALSE, error |-> "AnchorNotFoundError", content |-> doc]
    ELSE LET a == CHOOSE x \in AnchorsWithId(doc, anchorId) : TRUE
         IN  [success |-> TRUE, error |-> "none",
              content |-> SubSeq(doc, 1, a.startLine) \o replacement
                              \o SubSeq(doc, a.endLine, Len(doc))]

\* What injectIntoFile leaves on disk.
WrittenBy(result, write) ==
    IF write /\ result.success THEN result.content ELSE cDoc

ContentInit ==
    /\ cDoc \in Documents
    /\ cLast = [op |-> "none"]
    /\ FixOff
    /\ ProviderOff
    /\ GitOff
    /\ PoolOff
    /\ InitCommandOff
    /\ SmartOff
    /\ AgentOff
    /\ DetectOff
    /\ StoreOff

NotCalledYet == cLast.op = "none"

\* extract(filePath, content)
Extract ==
    /\ NotCalledYet
    /\ cLast' = [op |-> "extract", result |-> extractAnchors(cDoc)]
    /\ UNCHANGED cDoc
    /\ UNCHANGED notContentVars

\* injectIntoFile(filePath, anchorId, newContent, writeToFile)
InjectIntoFile(anchorId, replacement, write) ==
    /\ NotCalledYet
    /\ LET result == injectIntoText(cDoc, anchorId, replacement)
       IN  /\ cLast' = [op |-> "inject", id |-> anchorId, newContent |-> replacement,
                        write |-> write, result |-> result]
           /\ cDoc' = WrittenBy(result, write)
    /\ UNCHANGED notContentVars

\* extract, then injectIntoFile of the anchor with its own content
ExtractThenInject(anchorId) ==
    /\ NotCalledYet
    /\ AnchorsWithId(cDoc, anchorId) # {}
    /\ LET a == CHOOSE x \in AnchorsWithId(cDoc, anchorId) : TRUE
           result == injectIntoText(cDoc, anchorId, a.content)
       IN  /\ cLast' = [op |-> "roundtrip", id |-> anchorId, newContent |-> a.content,
                        write |-> TRUE, result |-> result]
           /\ cDoc' = WrittenBy(result, TRUE)
    /\ UNCHANGED notContentVars

\* fixCommand, one entry: injectIntoFile(entry.docRef.filePath, entry.id,
\* newContent, !options.dryRun); a result without success is counted as
\* failed and pushed as a fix with success: false
FixEntry(anchorId, replacement, dry) ==
    /\ NotCalledYet
    /\ LET result == injectIntoText(cDoc, anchorId, replacement)
       IN  /\ cLast' = [op |-> "fix", id |-> anchorId, newContent |-> replacement,
                        write |-> ~dry, result |-> result,
                        successCount |-> IF result.success THEN 1 ELSE 0,
                        failCount |-> IF result.success THEN 0 ELSE 1,
                        fix |-> [id |-> anchorId, success |-> result.success,
                                 error |-> result.error]]
           /\ cDoc' = WrittenBy(result, ~dry)
    /\ UNCHANGED notContentVars

ContentNext ==
    \/ Extract
    \/ \E anchorId \in AnchorIds, replacement \in NewContents, write \in BOOLEAN :
          InjectIntoFile(anchorId, replacement, write)
    \/ \E anchorId \in AnchorIds : ExtractThenInject(anchorId)
    \/ \E anchorId \in AnchorIds, replacement \in NewContents, dry \in BOOLEAN :
          FixEntry(anchorId, replacement, dry)

ContentSpec == ContentInit /\ [][ContentNext]_vars

(* ======================================================================= *)
(*        SmartChecker.checkReadme (packages/cli/fix-orchestrator.ts)      *)
(* ======================================================================= *)

\* Sections a git diff is made of at most.
MaxDiffSections == 2

\* The files of a change, and what a changed line ("+..." or "-...") is for
\* the keyword scan.
ChangedFileNames == {"README.md", "src/code.ts", "src/commands/run.ts",
                     "src/code.test.ts"}
ChangedLines == {"export class", "plain"}

\* A git diff: the sections of its files, each with its changed line.
DiffSections == [file : ChangedFileNames, line : ChangedLines]
GitDiffs == UNION {[1..k -> DiffSections] : k \in 0..MaxDiffSections}

\* context of analysisService.analyze
ContextOf(diff) ==
    [gitDiff |-> diff,
     changedFiles |-> {diff[k].file : k \in 1..Len(diff)},
     resolved |-> TRUE]

\* filterGitDiff(gitDiff, ['README.md'])
filterGitDiff(gitDiff, excluded) ==
    SelectSeq(gitDiff, LAMBDA section : section.file \notin excluded)

\* relevantFiles of shouldAnalyzeWithAI: no test file, then source code
RelevantFiles(changedFiles) ==
    {file \in changedFiles :
        /\ file # "src/code.test.ts"
        /\ file \in {"src/code.ts", "src/commands/run.ts"}}

\* isCriticalChange
IsCriticalChange(changedFiles) ==
    \E file \in RelevantFiles(changedFiles) : file = "src/commands/run.ts"

\* hasMeaningfulChange: a keyword in a changed line of the diff
HasMeaningfulChange(gitDiff) ==
    \E k \in 1..Len(gitDiff) : gitDiff[k].line = "export class"

\* A pre-filter that lets every change through.
AnalyzeEveryChange(changedFiles, gitDiff) == TRUE

\* shouldAnalyzeWithAI(changedFiles, gitDiff)
shouldAnalyzeWithAI(changedFiles, gitDiff) ==
    \/ IsCriticalChange(changedFiles)
    \/ HasMeaningfulChange(gitDiff)

(* ------------------------ the planner's response ----------------------- *)

\* The pieces a response is made of: the opening fence of a markdown code
\* block (three backquotes, written [fence] here) with its tag, white space, the
\* closing fence, and a body, which is a JSON text or is not.
Fence == [json |-> "[fence]json", hasDrift |-> "absent"]
FenceEnd == [json |-> "[fence]", hasDrift |-> "absent"]
Space == [json |-> " ", hasDrift |-> "absent"]
HasDriftValues == {"true", "false", "'yes'", "0", "absent"}
JsonTexts == {[json |-> "object", hasDrift |-> v] : v \in HasDriftValues}
                \cup {[json |-> "null", hasDrift |-> "absent"]}
Bodies == JsonTexts \cup {[json |-> "none", hasDrift |-> "absent"]}

Optional(piece) == {<<>>, <<piece>>}

\* Responses: [space] [fence] [space] body [space] [fence] [space]
Responses ==
    {a \o b \o c \o <<body>> \o d \o e \o f :
        a \in Optional(Space), b \in Optional(Fence), c \in Optional(Space),
        body \in Bodies,
        d \in Optional(Space), e \in Optional(FenceEnd), f \in Optional(Space)}

\* .replace(/^[fence]json\s*/, '')
RECURSIVE DropSpaces(_)
DropSpaces(text) ==
    IF text # <<>> /\ Head(text) = Space THEN DropSpaces(Tail(text)) ELSE text

StripFence(text) ==
    IF text # <<>> /\ Head(text) = Fence THEN DropSpaces(Tail(text)) ELSE text

\* .replace(/[fence]$/, '')
StripFenceEnd(text) ==
    IF text # <<>> /\ text[Len(text)] = FenceEnd
    THEN SubSeq(text, 1, Len(text) - 1) ELSE text

\* .trim()
RECURSIVE DropSpacesAtEnd(_)
DropSpacesAtEnd(text) ==
    IF text # <<>> /\ text[Len(text)] = Space
    THEN DropSpacesAtEnd(SubSeq(text, 1, Len(text) - 1)) ELSE text

Trim(text) == DropSpacesAtEnd(DropSpaces(text))

cleanJson(response) == Trim(StripFenceEnd(StripFence(response)))

\* JSON.parse(cleanJson) throws unless the text is one JSON text.
ParseThrows(text) ==
    ~(Len(text) = 1 /\ text[1] \in JsonTexts)

\* result && result.hasDrift
Truthy(value) == value \in {"true", "'yes'"}

ResultHasDrift(text) ==
    /\ text[1].json = "object"
    /\ Truthy(text[1].hasDrift)

(* ------------------------------ the call -------------------------------- *)

\* A checker that takes a failure for a drift.
DriftOnFailure == [returned |-> TRUE, hasDrift |-> TRUE]

\* return { hasDrift: false }
NoDriftResult == [returned |-> TRUE, hasDrift |-> FALSE]

\* return { hasDrift: true, reason, suggestion }
DriftResult == [returned |-> TRUE, hasDrift |-> TRUE]

SmartInit ==
    /\ scReadme \in BOOLEAN
    /\ scContext = NoContext
    /\ scCalls = <<>>
    /\ scResponse = NoResponse
    /\ scState = "start"
    /\ scResult = NoSmartResult
    /\ FixOff
    /\ ProviderOff
    /\ GitOff
    /\ PoolOff
    /\ InitCommandOff
    /\ AgentOff
    /\ DetectOff
    /\ StoreOff
    /\ ContentOff

SmartCall(name) == scCalls' = Append(scCalls, name)

SmartReturn(result) ==
    /\ scResult' = result
    /\ scState' = "returned"

\* if (!existsSync(readmePath)) return { hasDrift: false }
SmartNoReadme ==
    /\ scState = "start"
    /\ ~scReadme
    /\ SmartCall("existsSync")
    /\ SmartReturn(NoDriftResult)
    /\ UNCHANGED <<scReadme, scContext, scResponse>>
    /\ UNCHANGED notSmartVars

\* The README exists: analysisService.analyze is called.
SmartReadmeExists ==
    /\ scState = "start"
    /\ scReadme
    /\ scCalls' = scCalls \o <<"existsSync", "analyze">>
    /\ scState' = "analyze"
    /\ UNCHANGED <<scReadme, scContext, scResponse, scResult>>
    /\ UNCHANGED notSmartVars

\* analyze rejects: catch (error) { return { hasDrift: false } }
SmartAnalysisThrows ==
    /\ scState = "analyze"
    /\ SmartReturn(NoDriftResult)
    /\ UNCHANGED <<scReadme, scContext, scCalls, scResponse>>
    /\ UNCHANGED notSmartVars

\* analyze resolves: no diff, no diff but of the README, nothing for the
\* pre-filter: return { hasDrift: false }; otherwise go on to the README.
SmartAnalysed(diff) ==
    /\ scState = "analyze"
    /\ scContext' = ContextOf(diff)
    /\ LET filtered == filterGitDiff(diff, {"README.md"}) IN
       IF \/ diff = <<>>
          \/ filtered = <<>>
          \/ ~shouldAnalyzeWithAI(scContext'.changedFiles, filtered)
       THEN SmartReturn(NoDriftResult)
       ELSE scState' = "read" /\ scResult' = scResult
    /\ UNCHANGED <<scReadme, scCalls, scResponse>>
    /\ UNCHANGED notSmartVars

\* readFileSync(readmePath, 'utf-8') is outside every try: when it throws,
\* checkReadme rejects.
SmartReadFile(thrown) ==
    /\ scState = "read"
    /\ SmartCall("readFileSync")
    /\ scState' = IF thrown THEN "rejected" ELSE "create"
    /\ UNCHANGED <<scReadme, scContext, scResponse, scResult>>
    /\ UNCHANGED notSmartVars

\* createAIAgentsFromEnv throws without an API key: caught, the call ends
\* with the last return.  Otherwise plannerAgent.validateConnection() is
\* called.
SmartCreateAgents(thrown) ==
    /\ scState = "create"
    /\ IF thrown
       THEN /\ SmartCall("createAIAgentsFromEnv")
            /\ SmartReturn(NoDriftResult)
       ELSE /\ scCalls' = scCalls \o <<"createAIAgentsFromEnv", "validateConnection">>
            /\ scState' = "validate"
            /\ scResult' = scResult
    /\ UNCHANGED <<scReadme, scContext, scResponse>>
    /\ UNCHANGED notSmartVars

\* if (!await plannerAgent.validateConnection()) return { hasDrift: false };
\* otherwise plannerAgent.generateText(prompt, ...) is called.
SmartValidated(connected) ==
    /\ scState = "validate"
    /\ IF connected
       THEN /\ SmartCall("generateText")
            /\ scState' = "generate"
            /\ scResult' = scResult
       ELSE /\ SmartReturn(NoDriftResult)
            /\ scCalls' = scCalls
    /\ UNCHANGED <<scReadme, scContext, scResponse>>
    /\ UNCHANGED notSmartVars

\* generateText rejects: catch (error), then return { hasDrift: false }
SmartGenerateThrows ==
    /\ scState = "generate"
    /\ SmartReturn(NoDriftResult)
    /\ UNCHANGED <<scReadme, scContext, scCalls, scResponse>>
    /\ UNCHANGED notSmartVars

\* generateText resolves: the response is cleaned and parsed.
SmartResponse(response) ==
    /\ scState = "generate"
    /\ scResponse' = response
    /\ LET text == cleanJson(response) IN
       IF ParseThrows(text) THEN SmartReturn(NoDriftResult)
       ELSE IF ResultHasDrift(text) THEN SmartReturn(DriftResult)
       ELSE SmartReturn(NoDriftResult)
    /\ UNCHANGED <<scReadme, scContext, scCalls>>
    /\ UNCHANGED notSmartVars

SmartNext ==
    \/ SmartNoReadme
    \/ SmartReadmeExists
    \/ SmartAnalysisThrows
    \/ \E diff \in GitDiffs : SmartAnalysed(diff)
    \/ \E thrown \in BOOLEAN : SmartReadFile(thrown)
    \/ \E thrown \in BOOLEAN : SmartCreateAgents(thrown)
    \/ \E connected \in BOOLEAN : SmartValidated(connected)
    \/ SmartGenerateThrows
    \/ \E response \in Responses : SmartResponse(response)

SmartSpec == SmartInit /\ [][SmartNext]_vars

(* ======================================================================= *)
(*                       initCommand (src/cli/init.ts)                     *)
(* ======================================================================= *)

\* What the user types at a yes/no question, and at the other questions.
RawYesNo == {"", "no", "n", "yes", "y", "YES", " y ", "maybe"}
RawNames == {"", "my-project"}
RawRoots == {"", "./new-root"}
RawDocsFolders == {"", "./documentation"}
RawMapFiles == {"", "map.json"}
RawKeys == {"", " sk-new "}

\* answer.trim()
TrimAnswer(raw) ==
    CASE raw = " y " -> "y"
      [] raw = " sk-new " -> "sk-new"
      [] OTHER -> raw

\* overwrite.toLowerCase()
ToLowerCase(text) == IF text = "YES" THEN "yes" ELSE text

\* question(): resolve(answer.trim() || defaultValue || '')
question(raw, defaultValue) ==
    IF TrimAnswer(raw) # "" THEN TrimAnswer(raw) ELSE defaultValue

\* A wizard that goes on unless the answer is a no.
DeclinedOnlyByNo(answer) == ToLowerCase(answer) \in {"no", "n"}

\* overwrite.toLowerCase() !== 'yes' && overwrite.toLowerCase() !== 'y'
Declined(answer) == ToLowerCase(answer) \notin {"yes", "y"}

\* The files initCommand may find.
ExistingConfig ==
    [projectName |-> "Existing Project", projectRoot |-> ".",
     docsFolder |-> "./docs", mapFile |-> "doctype-map.json"]

FileOf(lines, newline) == [exists |-> TRUE, lines |-> lines, newline |-> newline]

KeyLine(value) == [name |-> "OPENAI_API_KEY", value |-> value]
OtherLine == [name |-> "OTHER", value |-> "1"]
BlankLine == [name |-> "", value |-> ""]

ConfigsAtStart == {NotOnDisk, FileOf(<<ExistingConfig>>, FALSE)}

EnvsAtStart ==
    {NotOnDisk,
     FileOf(<<>>, FALSE),
     FileOf(<<OtherLine>>, FALSE),
     FileOf(<<KeyLine("sk-old")>>, TRUE),
     FileOf(<<KeyLine("")>>, TRUE),
     FileOf(<<OtherLine, KeyLine("sk-old")>>, FALSE)}

\* envContent.match(/OPENAI_API_KEY=(.+)/): the first line of the key with
\* a value; "" when there is none or no file.
existingApiKey(env) ==
    LET found == {k \in 1..Len(env.lines) :
                     env.lines[k].name = "OPENAI_API_KEY" /\ env.lines[k].value # ""}
    IN IF ~env.exists \/ found = {} THEN ""
       ELSE env.lines[CHOOSE k \in found : \A j \in found : k <= j].value

\* envContent.includes('OPENAI_API_KEY=')
IncludesKey(env) ==
    \E k \in 1..Len(env.lines) : env.lines[k].name = "OPENAI_API_KEY"

\* envContent.replace(/OPENAI_API_KEY=.*/, ...): the first line of the key
ReplaceKey(env, apiKey) ==
    LET first == CHOOSE k \in 1..Len(env.lines) :
                     /\ env.lines[k].name = "OPENAI_API_KEY"
                     /\ \A j \in 1..(k - 1) : env.lines[j].name # "OPENAI_API_KEY"
    IN [env EXCEPT !.lines[first] = KeyLine(apiKey)]

\* The key appended, after a line break if the content does not end with one.
AppendKey(env, apiKey) ==
    FileOf((IF env.newline THEN env.lines
            ELSE IF env.lines = <<>> THEN <<BlankLine>>
            ELSE env.lines) \o <<KeyLine(apiKey)>>, TRUE)

\* The content written to .env
EnvWith(env, apiKey) ==
    IF env.exists
    THEN IF IncludesKey(env) THEN ReplaceKey(env, apiKey) ELSE AppendKey(env, apiKey)
    ELSE FileOf(<<KeyLine(apiKey)>>, TRUE)

\* The questions, by the order of the wizard.
AnswerTo(asked, answers, name) ==
    answers[CHOOSE k \in 1..Len(asked) : asked[k] = name]

\* const config: DoctypeConfig = { projectName, projectRoot, docsFolder, mapFile }
ConfigFrom(asked, answers) ==
    [projectName |-> AnswerTo(asked, answers, "projectName"),
     projectRoot |-> AnswerTo(asked, answers, "projectRoot"),
     docsFolder |-> AnswerTo(asked, answers, "docsFolder"),
     mapFile |-> AnswerTo(asked, answers, "mapFile")]

InitCommandInit ==
    /\ initFiles \in [config : ConfigsAtStart, env : EnvsAtStart, newRoot : {FALSE}]
    /\ initAsked = <<>>
    /\ initAnswers = <<>>
    /\ initRl = "none"
    /\ initState = "start"
    /\ initResult = NoInitResult
    /\ FixOff
    /\ ProviderOff
    /\ GitOff
    /\ PoolOff
    /\ AgentOff
    /\ DetectOff
    /\ StoreOff
    /\ ContentOff
    /\ SmartOff

Ask(name) == initAsked' = Append(initAsked, name)

Answered(answer) == initAnswers' = Append(initAnswers, answer)

\* rl = createInterface(); the check of the configuration file
InitBegin ==
    /\ initState = "start"
    /\ initRl' = "open"
    /\ IF initFiles.config.exists
       THEN Ask("overwrite") /\ initState' = "overwrite"
       ELSE Ask("projectName") /\ initState' = "projectName"
    /\ UNCHANGED <<initFiles, initAnswers, initResult>>
    /\ UNCHANGED notInitVars

\* The answer to 'Do you want to overwrite it? (yes/no)'
InitOverwriteAnswered(raw) ==
    /\ initState = "overwrite"
    /\ Answered(question(raw, "no"))
    /\ IF Declined(question(raw, "no"))
       THEN /\ initRl' = "closed"
            /\ initResult' = [returned |-> TRUE, success |-> FALSE,
                              error |-> "Configuration file already exists"]
            /\ initState' = "returned"
            /\ initAsked' = initAsked
       ELSE /\ Ask("projectName")
            /\ initState' = "projectName"
            /\ UNCHANGED <<initRl, initResult>>
    /\ UNCHANGED initFiles
    /\ UNCHANGED notInitVars

\* Prompts 1 to 3
InitProjectNameAnswered(raw) ==
    /\ initState = "projectName"
    /\ Answered(question(raw, "cwd-name"))
    /\ Ask("projectRoot") /\ initState' = "projectRoot"
    /\ UNCHANGED <<initFiles, initRl, initResult>>
    /\ UNCHANGED notInitVars

InitProjectRootAnswered(raw) ==
    /\ initState = "projectRoot"
    /\ Answered(question(raw, "."))
    /\ Ask("docsFolder") /\ initState' = "docsFolder"
    /\ UNCHANGED <<initFiles, initRl, initResult>>
    /\ UNCHANGED notInitVars

InitDocsFolderAnswered(raw) ==
    /\ initState = "docsFolder"
    /\ Answered(question(raw, "./docs"))
    /\ Ask("mapFile") /\ initState' = "mapFile"
    /\ UNCHANGED <<initFiles, initRl, initResult>>
    /\ UNCHANGED notInitVars

\* Prompt 4, then the look for a key in .env and prompt 5
InitMapFileAnswered(raw) ==
    /\ initState = "mapFile"
    /\ Answered(question(raw, "doctype-map.json"))
    /\ IF existingApiKey(initFiles.env) # ""
       THEN Ask("replaceKey") /\ initState' = "replaceKey"
       ELSE Ask("apiKey") /\ initState' = "apiKey"
    /\ UNCHANGED <<initFiles, initRl, initResult>>
    /\ UNCHANGED notInitVars

\* rl.close() and all that follows it: the project root is created if it
\* is missing, the configuration is written, then the key if there is one.
\* A writeFileSync that throws lands in the catch.
SaveAll(asked, answers, apiKey, thrown) ==
    /\ initRl' = "closed"
    /\ initState' = "returned"
    /\ LET config == ConfigFrom(asked, answers)
           rooted == [initFiles EXCEPT !.newRoot = (config.projectRoot # ".")]
           saved == [rooted EXCEPT !.config = FileOf(<<config>>, TRUE)]
       IN IF thrown
          THEN /\ initFiles' = rooted
               /\ initResult' = [returned |-> TRUE, success |-> FALSE,
                                 error |-> "EACCES"]
          ELSE /\ initFiles' =
                     IF apiKey # ""
                     THEN [saved EXCEPT !.env = EnvWith(initFiles.env, apiKey)]
                     ELSE saved
               /\ initResult' = [returned |-> TRUE, success |-> TRUE,
                                 error |-> "none"]

\* The answer to 'Do you want to replace it?'
InitReplaceKeyAnswered(raw, thrown) ==
    /\ initState = "replaceKey"
    /\ Answered(question(raw, "no"))
    /\ IF ToLowerCase(question(raw, "no")) \in {"yes", "y"}
       THEN /\ Ask("newApiKey") /\ initState' = "newApiKey"
            /\ ~thrown
            /\ UNCHANGED <<initFiles, initRl, initResult>>
       ELSE /\ initAsked' = initAsked
            /\ SaveAll(initAsked, initAnswers', existingApiKey(initFiles.env), thrown)
    /\ UNCHANGED notInitVars

\* The answer to 'Enter your new OpenAI API key:'
InitNewApiKeyAnswered(raw, thrown) ==
    /\ initState = "newApiKey"
    /\ Answered(question(raw, ""))
    /\ initAsked' = initAsked
    /\ SaveAll(initAsked, initAnswers', question(raw, ""), thrown)
    /\ UNCHANGED notInitVars

\* The answer to 'Enter your OpenAI API key (leave empty to skip)'
InitApiKeyAnswered(raw, thrown) ==
    /\ initState = "apiKey"
    /\ Answered(question(raw, ""))
    /\ initAsked' = initAsked
    /\ SaveAll(initAsked, initAnswers', question(raw, ""), thrown)
    /\ UNCHANGED notInitVars

InitCommandNext ==
    \/ InitBegin
    \/ \E raw \in RawYesNo : InitOverwriteAnswered(raw)
    \/ \E raw \in RawNames : InitProjectNameAnswered(raw)
    \/ \E raw \in RawRoots : InitProjectRootAnswered(raw)
    \/ \E raw \in RawDocsFolders : InitDocsFolderAnswered(raw)
    \/ \E raw \in RawMapFiles : InitMapFileAnswered(raw)
    \/ \E raw \in RawYesNo, thrown \in BOOLEAN : InitReplaceKeyAnswered(raw, thrown)
    \/ \E raw \in RawKeys, thrown \in BOOLEAN : InitNewApiKeyAnswered(raw, thrown)
    \/ \E raw \in RawKeys, thrown \in BOOLEAN : InitApiKeyAnswered(raw, thrown)

InitCommandSpec == InitCommandInit /\ [][InitCommandNext]_vars

(* ======================================================================= *)
(*        pMap (packages/cli/fix-orchestrator.ts), with any mapper         *)
(* ======================================================================= *)

\* Items and pool width of a call at most.
MaxPoolItems == 4
MaxPoolWidth == 3

\* items[i], and what the mapper resolves with for an item.
ItemAt(i) == 10 * i
MapperOf(item) == item + 1

\* An empty slot of new Array(items.length)
EmptySlot == 0

\* An execThread that has not been started, and one that has returned.
NotStarted == [at |-> "not started", curIndex |-> 0]
Returned == [at |-> "returned", curIndex |-> 0]

PoolThreads == 1..pmWidth

PoolInit ==
    /\ \E count \in 0..MaxPoolItems : pmItems = [i \in 1..count |-> ItemAt(i)]
    /\ pmWidth \in 1..MaxPoolWidth
    /\ pmIndex = 0
    /\ pmSpawned = 0
    /\ pmThread = [w \in 1..pmWidth |-> NotStarted]
    /\ pmResults = [i \in 1..Len(pmItems) |-> EmptySlot]
    /\ pmDispatched = <<>>
    /\ pmCompleted = <<>>
    /\ pmState = "spawning"
    /\ FixOff
    /\ ProviderOff
    /\ GitOff
    /\ AgentOff
    /\ DetectOff
    /\ StoreOff
    /\ ContentOff
    /\ SmartOff
    /\ InitCommandOff

\* A slot chosen by the order of completion.
SlotByCompletion(curIndex, completed) == completed + 1

\* results[curIndex] = ...
ResultSlot(curIndex, completed) == curIndex

\* while (index < items.length) { const curIndex = index++; mapper(...) }:
\* thread w takes the next item and calls the mapper, or leaves the loop.
TakeNext(w) ==
    IF pmIndex < Len(pmItems)
    THEN /\ pmIndex' = pmIndex + 1
         /\ pmThread' = [pmThread EXCEPT ![w] = [at |-> "await", curIndex |-> pmIndex + 1]]
         /\ pmDispatched' = Append(pmDispatched, pmIndex + 1)
    ELSE /\ pmThread' = [pmThread EXCEPT ![w] = Returned]
         /\ UNCHANGED <<pmIndex, pmDispatched>>

\* for (let i = 0; i < concurrency; i++) threads.push(execThread()): each
\* execThread runs up to its first await.
PoolSpawn ==
    /\ pmState = "spawning"
    /\ pmSpawned < pmWidth
    /\ pmSpawned' = pmSpawned + 1
    /\ TakeNext(pmSpawned + 1)
    /\ pmState' = IF pmSpawned' = pmWidth THEN "await all" ELSE pmState
    /\ UNCHANGED <<pmItems, pmWidth, pmResults, pmCompleted>>
    /\ UNCHANGED notPoolVars

\* The mapper call of thread w resolves: the result is stored, completed++,
\* and the thread goes round its loop.
PoolResolve(w) ==
    /\ pmState \in {"await all", "rejected"}
    /\ pmThread[w].at = "await"
    /\ pmResults' = [pmResults EXCEPT
                        ![ResultSlot(pmThread[w].curIndex, Len(pmCompleted))] =
                            MapperOf(pmItems[pmThread[w].curIndex])]
    /\ pmCompleted' = Append(pmCompleted, pmThread[w].curIndex)
    /\ TakeNext(w)
    /\ UNCHANGED <<pmItems, pmWidth, pmSpawned, pmState>>
    /\ UNCHANGED notPoolVars

\* The mapper call of thread w rejects: execThread rejects, and with it
\* Promise.all and pMap; the other threads go on.
PoolReject(w) ==
    /\ pmState \in {"await all", "rejected"}
    /\ pmThread[w].at = "await"
    /\ pmThread' = [pmThread EXCEPT ![w] = [at |-> "rejected", curIndex |-> @.curIndex]]
    /\ pmState' = "rejected"
    /\ UNCHANGED <<pmItems, pmWidth, pmIndex, pmSpawned, pmResults,
                   pmDispatched, pmCompleted>>
    /\ UNCHANGED notPoolVars

\* await Promise.all(threads); return results
PoolReturn ==
    /\ pmState = "await all"
    /\ \A w \in PoolThreads : pmThread[w] = Returned
    /\ pmState' = "returned"
    /\ UNCHANGED <<pmItems, pmWidth, pmIndex, pmSpawned, pmThread, pmResults,
                   pmDispatched, pmCompleted>>
    /\ UNCHANGED notPoolVars

PoolNext ==
    \/ PoolSpawn
    \/ \E w \in PoolThreads : PoolResolve(w)
    \/ \E w \in PoolThreads : PoolReject(w)
    \/ PoolReturn

PoolSpec == PoolInit /\ [][PoolNext]_vars

(* ======================================================================= *)
(*       GitHelper.autoCommit (packages/cli/src/commands/readme.ts)        *)
(* ======================================================================= *)

\* Files and symbol names handed to autoCommit at most.
MaxCommitFiles == 2
MaxSymbolNames == 4

\* createCommitMessage(symbolNames), by the number of names
createCommitMessage(count) ==
    CASE count = 0 -> "Auto-fix documentation"
      [] count = 1 -> "Auto-fix documentation for <name>"
      [] count \in {2, 3} -> "Auto-fix documentation for <names>"
      [] OTHER -> "Auto-fix documentation for <count> symbols"

\* What addFiles, commit and push return: execSync returned, or threw.
GitOk(step) == [step |-> step, success |-> TRUE, text |-> "output of git " \o step]
GitFailed(step) == [step |-> step, success |-> FALSE, text |-> "error of git " \o step]
GitResults(step) == {GitOk(step), GitFailed(step)}

\* return addResult / commitResult / pushResult
ReturnedFrom(result) ==
    [returned |-> TRUE, success |-> result.success, text |-> result.text]

\* A helper that goes on to the next command whatever the last one gave.
GoesOnAnyway(result) == TRUE

\* if (!addResult.success) return ...: the next command runs after a success
GoesOn(result) == result.success

GitInit ==
    /\ gitFiles \in 1..MaxCommitFiles
    /\ gitSymbols \in 0..MaxSymbolNames
    /\ gitPush \in BOOLEAN
    /\ gitSteps = <<>>
    /\ gitState = "start"
    /\ gitResult = NoGitResult
    /\ FixOff
    /\ ProviderOff
    /\ AgentOff
    /\ DetectOff
    /\ StoreOff
    /\ ContentOff
    /\ SmartOff
    /\ InitCommandOff
    /\ PoolOff

GitFrame == <<gitFiles, gitSymbols, gitPush>>

\* if (!this.isGitRepository()) return { success: false, error: ... }
GitCheckRepository(isRepository) ==
    /\ gitState = "start"
    /\ IF isRepository
       THEN gitState' = "add" /\ gitResult' = gitResult
       ELSE /\ gitState' = "returned"
            /\ gitResult' = [returned |-> TRUE, success |-> FALSE,
                             text |-> "Not a git repository"]
    /\ UNCHANGED <<GitFrame, gitSteps>>
    /\ UNCHANGED notGitVars

\* One command has run and given its result: autoCommit returns that result
\* or goes on to the next position.
GitStep(result, next) ==
    /\ gitSteps' = Append(gitSteps, result)
    /\ IF GoesOn(result)
       THEN gitState' = next /\ gitResult' = gitResult
       ELSE gitState' = "returned" /\ gitResult' = ReturnedFrom(result)
    /\ UNCHANGED GitFrame
    /\ UNCHANGED notGitVars

\* const addResult = this.addFiles(files)
GitAdd(result) ==
    /\ gitState = "add"
    /\ GitStep(result, "commit")

\* const commitResult = this.commit(commitMessage)
GitCommit(result) ==
    /\ gitState = "commit"
    /\ GitStep(result, "push")

\* if (push) { const pushResult = this.push(); ... }
GitPush(result) ==
    /\ gitState = "push"
    /\ gitPush
    /\ GitStep(result, "done")

\* No push was asked for.
GitSkipPush ==
    /\ gitState = "push"
    /\ ~gitPush
    /\ gitState' = "done"
    /\ UNCHANGED <<GitFrame, gitSteps, gitResult>>
    /\ UNCHANGED notGitVars

\* return { success: true, output: commitMessage }
GitReturn ==
    /\ gitState = "done"
    /\ gitState' = "returned"
    /\ gitResult' = [returned |-> TRUE, success |-> TRUE,
                     text |-> createCommitMessage(gitSymbols)]
    /\ UNCHANGED <<GitFrame, gitSteps>>
    /\ UNCHANGED notGitVars

GitNext ==
    \/ \E isRepository \in BOOLEAN : GitCheckRepository(isRepository)
    \/ \E result \in GitResults("add") : GitAdd(result)
    \/ \E result \in GitResults("commit") : GitCommit(result)
    \/ \E result \in GitResults("push") : GitPush(result)
    \/ GitSkipPush
    \/ GitReturn

GitSpec == GitInit /\ [][GitNext]_vars

(* ======================================================================= *)
(*   VercelAIProvider.generateDocumentation and the content sanitizer      *)
(*   (packages/ai/providers/vercel-ai-provider.ts, content-sanitizer.ts)   *)
(* ======================================================================= *)

\* A text is a sequence of characters.  "x" stands for a letter and "d" for
\* the word doctype:start.

\* Pieces a generated text is made of at most.
MaxTextPieces == 4

CommentOpen == <<"<", "!", "-", "-">>
CommentClose == <<"-", "-", ">">>
Newline == "\n"
WhiteSpace == {" ", Newline}

TextPieces ==
    {CommentOpen, CommentClose, <<"<", "!">>, <<"-", "-">>, <<"x">>,
     <<Newline>>, <<"#", " ">>, <<"}">>, <<"{">>, <<"d">>}

RECURSIVE Flatten(_)
Flatten(pieces) ==
    IF pieces = <<>> THEN <<>> ELSE Head(pieces) \o Flatten(Tail(pieces))

GeneratedTexts ==
    {Flatten(pieces) :
        pieces \in UNION {[1..k -> TextPieces] : k \in 0..MaxTextPieces}}

\* The pattern stands in the text at position i.
HasAt(text, i, pattern) ==
    /\ i >= 1
    /\ i + Len(pattern) - 1 <= Len(text)
    /\ SubSeq(text, i, i + Len(pattern) - 1) = pattern

\* content.includes(pattern)
Includes(text, pattern) == \E i \in 1..Len(text) : HasAt(text, i, pattern)

\* The first position from `from` on where the pattern stands; 0 if none.
FirstAt(text, pattern, from) ==
    LET found == {i \in from..Len(text) : HasAt(text, i, pattern)}
    IN IF found = {} THEN 0 ELSE CHOOSE i \in found : \A j \in found : i <= j

\* The last position of the run of characters of the set that starts at
\* `from`; from - 1 if there is none.
RunEnd(text, from, set) ==
    LET ends == {j \in (from - 1)..Len(text) :
                    \A k \in from..j : text[k] \in set}
    IN CHOOSE j \in ends : \A k \in ends : k <= j

\* The last position of the line that holds position `from`.
LineEnd(text, from) ==
    LET breaks == {j \in from..Len(text) : text[j] = Newline}
    IN IF breaks = {} THEN Len(text)
       ELSE (CHOOSE j \in breaks : \A k \in breaks : j <= k) - 1

\* 1. sanitized.replace(/^#+\s+(.*)$/gm, '**$1**'), from the start of a line
RECURSIVE ConvertHeaders(_, _)
ConvertHeaders(text, start) ==
    IF start > Len(text) THEN <<>>
    ELSE LET hashes == RunEnd(text, start, {"#"})
             spaces == RunEnd(text, hashes + 1, WhiteSpace)
             isHeader == hashes >= start /\ spaces >= hashes + 1
             last == LineEnd(text, IF isHeader THEN spaces + 1 ELSE start)
             line == IF isHeader
                     THEN <<"*", "*">> \o SubSeq(text, spaces + 1, last) \o <<"*", "*">>
                     ELSE SubSeq(text, start, last)
         IN IF last >= Len(text) THEN line
            ELSE line \o <<Newline>> \o ConvertHeaders(text, last + 2)

\* 2. sanitized.replace(/<!--[\s\S]*?-->/g, ''), from a position on: each
\* opener is removed with all that follows up to the nearest closer; what is
\* left is not looked at again.
RECURSIVE RemoveComments(_, _)
RemoveComments(text, from) ==
    IF from > Len(text) THEN <<>>
    ELSE LET open == FirstAt(text, CommentOpen, from)
             close == IF open = 0 THEN 0
                      ELSE FirstAt(text, CommentClose, open + Len(CommentOpen))
         IN IF close = 0 THEN SubSeq(text, from, Len(text))
            ELSE SubSeq(text, from, open - 1)
                    \o RemoveComments(text, close + Len(CommentClose))

\* 3. sanitized.replace(/^\s*}.*?{.*$/gm, ''), from the start of a line
RECURSIVE RemoveSeparators(_, _)
RemoveSeparators(text, start) ==
    IF start > Len(text) THEN <<>>
    ELSE LET spaces == RunEnd(text, start, WhiteSpace)
             brace == spaces + 1
             matches == /\ brace <= Len(text) /\ text[brace] = "}"
                        /\ \E k \in (brace + 1)..LineEnd(text, brace) : text[k] = "{"
             last == LineEnd(text, IF matches THEN brace ELSE start)
             line == IF matches THEN <<>> ELSE SubSeq(text, start, last)
         IN IF last >= Len(text) THEN line
            ELSE line \o <<Newline>> \o RemoveSeparators(text, last + 2)

\* sanitized.replace(/^[},\s]*$/gm, ''), from the start of a line: the run
\* is removed up to the last end of line it reaches.
RECURSIVE RemoveBraceLines(_, _)
RemoveBraceLines(text, start) ==
    IF start > Len(text) THEN <<>>
    ELSE LET run == RunEnd(text, start, {"}", ","} \cup WhiteSpace)
             ends == {j \in (start - 1)..run :
                         j = Len(text) \/ text[j + 1] = Newline}
             matched == IF ends = {} THEN start - 1
                        ELSE CHOOSE j \in ends : \A k \in ends : k <= j
             last == IF matched >= start THEN matched ELSE LineEnd(text, start)
             line == IF matched >= start THEN <<>> ELSE SubSeq(text, start, last)
         IN IF last >= Len(text) THEN line
            ELSE line \o <<Newline>> \o RemoveBraceLines(text, last + 2)

\* 4. sanitized.replace(/\n{3,}/g, '\n\n')
RECURSIVE SqueezeNewlines(_)
SqueezeNewlines(text) ==
    IF text = <<>> THEN <<>>
    ELSE IF HasAt(text, 1, <<Newline, Newline, Newline>>)
         THEN SqueezeNewlines(Tail(text))
         ELSE <<Head(text)>> \o SqueezeNewlines(Tail(text))

\* 5. sanitized.trim()
TrimText(text) ==
    LET inside == {i \in 1..Len(text) : text[i] \notin WhiteSpace}
    IN IF inside = {} THEN <<>>
       ELSE SubSeq(text, CHOOSE i \in inside : \A j \in inside : i <= j,
                         CHOOSE i \in inside : \A j \in inside : j <= i)

sanitizeContent(content) ==
    TrimText(SqueezeNewlines(RemoveBraceLines(RemoveSeparators(
        RemoveComments(ConvertHeaders(content, 1), 1), 1), 1)))

\* content.match(/^#+\s+/gm)
HasHeader(content) ==
    \E i \in 1..Len(content) :
        /\ i = 1 \/ content[i - 1] = Newline
        /\ content[i] = "#"
        /\ LET hashes == RunEnd(content, i, {"#"})
           IN hashes < Len(content) /\ content[hashes + 1] \in WhiteSpace

\* A validation that does not look for HTML comments.
validateButComments(content) ==
    (IF Includes(content, <<"d">>) THEN {"anchor references"} ELSE {})
    \cup (IF HasHeader(content) THEN {"markdown headers"} ELSE {})

\* validateSanitizedContent(content): the errors found
validateSanitizedContent(content) ==
    (IF Includes(content, CommentOpen) THEN {"HTML comments"} ELSE {})
    \cup (IF Includes(content, <<"d">>) THEN {"anchor references"} ELSE {})
    \cup (IF HasHeader(content) THEN {"markdown headers"} ELSE {})

ProviderInit ==
    /\ vpText = <<>>
    /\ vpState = "generateText"
    /\ vpResult = NoProviderResult
    /\ FixOff
    /\ AgentOff
    /\ DetectOff
    /\ StoreOff
    /\ ContentOff
    /\ SmartOff
    /\ InitCommandOff
    /\ PoolOff
    /\ GitOff

\* generateText resolves: the text is sanitized and validated; the content
\* is returned, or the error of the validation is thrown and caught as a
\* GENERATION_FAILED provider error.
ProviderResolves(text) ==
    /\ vpState = "generateText"
    /\ vpText' = text
    /\ IF validateSanitizedContent(sanitizeContent(text)) = {}
       THEN /\ vpState' = "returned"
            /\ vpResult' = [content |-> sanitizeContent(text), code |-> "none"]
       ELSE /\ vpState' = "thrown"
            /\ vpResult' = [content |-> <<>>, code |-> "GENERATION_FAILED"]
    /\ UNCHANGED notProviderVars

\* generateText rejects: catch (error), throw providerError
ProviderRejects(code) ==
    /\ vpState = "generateText"
    /\ vpState' = "thrown"
    /\ vpResult' = [content |-> <<>>, code |-> code]
    /\ UNCHANGED vpText
    /\ UNCHANGED notProviderVars

ProviderNext ==
    \/ \E text \in GeneratedTexts : ProviderResolves(text)
    \/ \E code \in {"GENERATION_FAILED", "RATE_LIMIT"} : ProviderRejects(code)

ProviderSpec == ProviderInit /\ [][ProviderNext]_vars

(* ======================================================================= *)
(*                               Properties                                *)
(* ======================================================================= *)

Terminal == {"succeeded", "failed"}

\* The task is inside the callback of fileMutex.run: from the check of the
\* directory to the return of the FixDetail.
InCriticalSection(t) == pc[t] \in {"mkdir", "inject", "injected", "saving", "saved"}

SameFile(t, u) == DocFilePath(t) = DocFilePath(u)

\* The file of record t holds t's anchor with the content c.
AnchorHolds(t, c) ==
    /\ disk[DocFilePath(t)] # NoFile
    /\ disk[DocFilePath(t)][EntryId(t)] = c

(* ----------------------------------------------------------------------- *)
(* C1: no lost update.  In a run that writes (no dry run), whenever two    *)
(* records of the same documentation file have both been injected with     *)
(* success, the file holds the content of each of them inside its own      *)
(* anchor, whatever the order in which their generations completed.        *)
(* ----------------------------------------------------------------------- *)
C1_NoLostUpdate ==
    ~dryRun =>
        \A t, u \in Records :
            (/\ t # u
             /\ SameFile(t, u)
             /\ pc[t] = "succeeded"
             /\ pc[u] = "succeeded")
            => /\ AnchorHolds(t, results[t].newContent)
               /\ AnchorHolds(u, results[u].newContent)

\* Records 1 and 2 share docs/a.md; the run has returned, 2 was injected
\* with generated content and 1 with the placeholder after a failed
\* generation, and the file holds both.
C1_Witness ==
    /\ phase = "returned" /\ ~dryRun /\ useAI /\ n >= 2
    /\ SameFile(1, 2)
    /\ results[1].success /\ results[1].newContent = PlaceholderFor(1)
    /\ results[2].success /\ results[2].newContent = GeneratedContent(2)
    /\ AnchorHolds(1, PlaceholderFor(1))
    /\ AnchorHolds(2, GeneratedContent(2))

(* ----------------------------------------------------------------------- *)
(* C2: per-file serialization.  Two different tasks are never inside the   *)
(* critical section (anchor check, injection, map update, save) of the     *)
(* same absolute documentation file path at the same time.                 *)
(* ----------------------------------------------------------------------- *)
C2_FileSerialized ==
    \A t, u \in Records :
        (t # u /\ InCriticalSection(t) /\ InCriticalSection(u)) => ~SameFile(t, u)

\* A task is suspended inside the critical section of a file (it awaits
\* import('fs') to create the directory) while another task of the same
\* file waits for the lock.
C2_Witness ==
    \E t, u \in Records :
        /\ t # u /\ SameFile(t, u)
        /\ pc[t] = "mkdir"
        /\ pc[u] = "waiting"

(* ----------------------------------------------------------------------- *)
(* C3: map flushes are mutually exclusive.  At most one task is inside     *)
(* mapManager.save() at a time, whichever file it works on, and each save  *)
(* leaves on disk the complete in-memory map of that moment.               *)
(* ----------------------------------------------------------------------- *)
C3_SaveExclusive ==
    /\ [](Cardinality({t \in Records : pc[t] = "saving"}) <= 1)
    /\ [][\A t \in Records :
            (pc[t] = "saving" /\ pc'[t] = "saved") => diskMap' = mapEntries']_vars
    /\ [](\A t \in Records : pc[t] = "saved" => diskMap = mapEntries)

\* A task is inside save() while another worker is inside the critical
\* section of a different file, after a save triggered by a third file.
C3_Witness ==
    \E t, u, v \in Records :
        /\ pc[t] = "saving"
        /\ pc[u] = "mkdir" /\ ~SameFile(t, u)
        /\ pc[v] = "succeeded" /\ ~SameFile(t, v) /\ ~SameFile(u, v)
        /\ diskMap[EntryId(v)].hash = CurrentHash(v)

(* ----------------------------------------------------------------------- *)
(* C4: incremental persistence.  In a run that writes, at every state      *)
(* (every point at which the process could be killed) at most one record   *)
(* has its documentation file rewritten while the map file still holds the *)
(* hash that record had before the run, and that record is the one in      *)
(* flight between its injection and its save.                              *)
(* ----------------------------------------------------------------------- *)
Rewritten(t) ==
    /\ disk[DocFilePath(t)] # NoFile
    /\ disk[DocFilePath(t)][EntryId(t)] \in {GeneratedContent(t), PlaceholderFor(t)}

StaleOnDisk ==
    {t \in Records : /\ InMapAtStart(t)
                     /\ Rewritten(t)
                     /\ diskMap[EntryId(t)].hash = EntryHash(t)}

ExpectedPlaceholder(t) == generatePlaceholderContent(SymbolName(t), CurrentText(t))

FinishesWithPlaceholder(t) ==
    /\ useAI
    /\ newContent[t] = ExpectedPlaceholder(t)
    /\ pc[t] \notin Terminal
    /\ pc'[t] \in Terminal

C5_AsStated ==
    [][\A t \in Records :
          FinishesWithPlaceholder(t) =>
              results'[t] = [success |-> TRUE, newContent |-> ExpectedPlaceholder(t)]]_vars

(* ----------------------------------------------------------------------- *)
(* C5: isolation of a generation failure.  A record whose generation fails *)
(* goes on with the deterministic placeholder built from its symbol name   *)
(* and current signature text, and the failure changes nothing of any      *)
(* other record; its outcome is a success holding the placeholder exactly  *)
(* when its own injection succeeds, and a failure otherwise; the run       *)
(* returns one outcome per input record.                                   *)
(* ----------------------------------------------------------------------- *)
FallsBack(t) ==
    /\ pc[t] = "generating"
    /\ pc'[t] = "waiting"
    /\ newContent'[t] # GeneratedContent(t)

C5_GenerationFailureIsolated ==
    /\ [][\A t \in Records :
            FallsBack(t) =>
                /\ newContent'[t] = ExpectedPlaceholder(t)
                /\ \A u \in Records \ {t} :
                      /\ pc'[u] = pc[u]
                      /\ newContent'[u] = newContent[u]
                      /\ injRes'[u] = injRes[u]
                /\ UNCHANGED <<results, disk, mapEntries, diskMap, held,
                               successCount, failCount, phase>>]_vars
    /\ [][\A t \in Records :
            FinishesWithPlaceholder(t) =>
                /\ injRes[t] = "ok" =>
                      results'[t] = [success |-> TRUE,
                                     newContent |-> ExpectedPlaceholder(t)]
                /\ injRes[t] # "ok" => ~results'[t].success]_vars
    /\ [](phase = "returned" =>
            \A t \in Records : pc[t] \in Terminal /\ results[t] # NoResult)

\* Three records; the generation of the second failed and the run returned
\* a success with the placeholder for it and successes with the generated
\* content for the two others.
C5_Witness ==
    /\ phase = "returned" /\ useAI /\ n = 3
    /\ results[2] = [success |-> TRUE, newContent |-> ExpectedPlaceholder(2)]
    /\ results[1] = [success |-> TRUE, newContent |-> GeneratedContent(1)]
    /\ results[3] = [success |-> TRUE, newContent |-> GeneratedContent(3)]

(* ----------------------------------------------------------------------- *)
(* C6: bounded pool.  At most PoolWidth (5) records are being processed at *)
(* any moment, and a record is started only while fewer than PoolWidth     *)
(* are in process: a record beyond the first five starts only after        *)
(* enough earlier records have finished.                                   *)
(* ----------------------------------------------------------------------- *)
InProcess == {t \in Records : pc[t] \notin ({"pending"} \cup Terminal)}

Finished == {t \in Records : pc[t] \in Terminal}

C6_PoolBounded ==
    /\ [](Cardinality(InProcess) <= PoolWidth)
    /\ [][\A t \in Records :
            (pc[t] = "pending" /\ pc'[t] # "pending") =>
                /\ Cardinality(InProcess) < PoolWidth
                /\ Cardinality(Finished) >= t - PoolWidth]_vars

\* The pool is full again after the sixth record was started by a worker
\* that had finished its first one.
C6_Witness ==
    /\ n > PoolWidth
    /\ Cardinality(InProcess) = PoolWidth
    /\ (PoolWidth + 1) \in InProcess
    /\ Cardinality(Finished) = 1

(* ----------------------------------------------------------------------- *)
(* C7: per-record state machine.  A record only moves forward along        *)
(* pending -> generating -> content ready (generated, or placeholder after *)
(* a failed generation) -> injecting -> succeeded | failed; it is inside   *)
(* the injection only with content produced by its own generation or       *)
(* fallback; no stage is entered twice; a terminal record never changes.   *)
(* ----------------------------------------------------------------------- *)
Rank(p) ==
    CASE p = "pending"    -> 0
      [] p = "generating" -> 1
      [] p = "waiting"    -> 2
      [] p = "mkdir"      -> 3
      [] p = "inject"     -> 4
      [] p = "injected"   -> 5
      [] p = "saving"     -> 6
      [] p = "saved"      -> 7
      [] p = "succeeded"  -> 8
      [] p = "failed"     -> 8

C7_RecordStateMachine ==
    /\ [][\A t \in Records :
            /\ pc'[t] # pc[t] => Rank(pc'[t]) > Rank(pc[t])
            /\ pc[t] \in Terminal => results'[t] = results[t]
            /\ (pc'[t] = "generating" /\ pc[t] # "generating") => pc[t] = "pending"
            /\ (pc'[t] \in {"mkdir", "inject"} /\ pc[t] # pc'[t]) =>
                  pc[t] \in {"waiting", "mkdir"}]_vars
    /\ [](\A t \in Records :
            /\ Rank(pc[t]) \in 2..7 =>
                  newContent[t] \in {GeneratedContent(t), ExpectedPlaceholder(t)}
            /\ Rank(pc[t]) < 2 => newContent[t] = NoContent
            /\ pc[t] = "succeeded" => results[t].success
            /\ pc[t] = "failed" => ~results[t].success)

\* A record has ended in failure while another record, whose generation
\* succeeded, is about to inject its generated content.
C7_Witness ==
    \E t, u \in Records :
        /\ useAI
        /\ pc[t] = "failed"
        /\ pc[u] = "inject" /\ newContent[u] = GeneratedContent(u)

(* ----------------------------------------------------------------------- *)
(* C8: termination.  When every call returns and ready continuations are   *)
(* run, executeFixes returns, and every input record is then in a terminal *)
(* state: none stays pending, generating, waiting for a file lock or       *)
(* injecting.                                                              *)
(* ----------------------------------------------------------------------- *)
AllRecordsTerminal == \A t \in Records : pc[t] \in Terminal

C8_Terminates == <>(phase = "returned" /\ AllRecordsTerminal /\ held = {})

\* The run of six records has returned after a task had to wait for the
\* lock of a file: records 3 and 4 share a file that had to be created.
C8_Witness ==
    /\ phase = "returned" /\ n = MaxDrifts /\ AllRecordsTerminal
    /\ SameFile(3, 4) /\ pc[3] = "succeeded" /\ pc[4] = "succeeded"
    /\ dirs # DirsAtStart

(* ----------------------------------------------------------------------- *)
(* C9: isolation of an injection failure.  When the injection of a record  *)
(* throws or returns a failed result, the record ends with an outcome      *)
(* whose success is false, the run goes on (it neither returns nor rejects *)
(* at that step, no other record is touched), and when the run returns     *)
(* every record has reached its own terminal outcome.                      *)
(* ----------------------------------------------------------------------- *)
InjectionFailed(t) == pc[t] = "injected" /\ injRes[t] \in {"failed", "threw"}

C9_InjectionFailureIsolated ==
    /\ [][\A t \in Records :
            (InjectionFailed(t) /\ pc'[t] # pc[t]) =>
                /\ pc'[t] = "failed"
                /\ ~results'[t].success
                /\ phase' = "pmap"
                /\ LockKey(t) \notin held'
                /\ \A u \in Records \ {t} :
                      pc'[u] = pc[u] /\ results'[u] = results[u]]_vars
    /\ [](phase = "returned" =>
            \A t \in Records :
                /\ pc[t] \in Terminal
                /\ results[t].success <=> pc[t] = "succeeded")

\* The run has returned; the injection of record 1 failed, and record 2,
\* which is in the same file and was processed after it, succeeded.
C9_Witness ==
    /\ phase = "returned" /\ n >= 2
    /\ SameFile(1, 2)
    /\ pc[1] = "failed" /\ ~results[1].success
    /\ pc[2] = "succeeded" /\ results[2].success

(* ----------------------------------------------------------------------- *)
(* C10: arithmetic of the FixResult.  In the returned result, totalFixes   *)
(* is the number of fixes and of input records, successfulFixes and        *)
(* failedFixes are the numbers of fixes with success true and false, they  *)
(* add up to totalFixes, and success is true iff failedFixes is 0.         *)
(* ----------------------------------------------------------------------- *)
SuccessfulFixes == {t \in DOMAIN results : results[t].success}

FailedFixes == {t \in DOMAIN results : ~results[t].success}

C10_FixResultArithmetic ==
    phase = "returned" =>
        /\ fixResult.totalFixes = Cardinality(DOMAIN results)
        /\ fixResult.totalFixes = n
        /\ fixResult.successfulFixes = Cardinality(SuccessfulFixes)
        /\ fixResult.failedFixes = Cardinality(FailedFixes)
        /\ fixResult.successfulFixes + fixResult.failedFixes = fixResult.totalFixes
        /\ fixResult.success <=> (fixResult.failedFixes = 0)

\* A returned result with successes, a failed result and a thrown
\* injection among six records.
C10_Witness ==
    /\ phase = "returned" /\ n = MaxDrifts
    /\ fixResult.successfulFixes >= 2
    /\ fixResult.failedFixes = 2
    /\ ~fixResult.success

(* ----------------------------------------------------------------------- *)
(* C11: dry run.  With dryRun set, every documentation file, every         *)
(* in-memory map entry and the map file stay as they were before the run   *)
(* (no file write, no updateEntry/addEntry, no save), while each record    *)
(* whose injection is computed with success is reported as a successful    *)
(* outcome, and the overall success is true when no record fails.          *)
(* ----------------------------------------------------------------------- *)
C11_DryRunChangesNothing ==
    /\ [](dryRun =>
            /\ \A f \in AllFiles : disk[f] = FileAtStart(f)
            /\ mapEntries = MapAtStart
            /\ diskMap = MapAtStart
            /\ \A t \in Records : pc[t] \notin {"saving", "saved"})
    /\ [][\A t \in Records :
            (dryRun /\ pc[t] = "injected" /\ injRes[t] = "ok" /\ pc'[t] # pc[t]) =>
                /\ pc'[t] = "succeeded"
                /\ results'[t].success]_vars
    /\ [](dryRun /\ phase = "returned" =>
            (fixResult.success <=> \A t \in Records : results[t].success))

\* A dry run of six records has returned with every record reported as a
\* success, also the two whose anchor is in a file that does not exist.
C11_Witness ==
    /\ dryRun /\ phase = "returned" /\ n = MaxDrifts
    /\ fixResult.success
    /\ \A t \in Records : results[t].success
    /\ disk[DocFilePath(3)] = NoFile

(* ----------------------------------------------------------------------- *)
(* C12 as stated: after a run that writes, drift detection over the        *)
(* resulting map reports none of the records the run was given.            *)
(* ----------------------------------------------------------------------- *)
\* The records that drift detection over the map at the start emits.
DetectedAtStart == {t \in Records : DriftRemains(MapAtStart, t)}

C13_AsStated ==
    ~dryRun =>
        \A t \in Records :
            pc[t] \in {"saving", "saved", "succeeded"} =>
                mapEntries[EntryId(t)] =
                    [hash |-> CurrentHash(t), text |-> CurrentText(t)]

(* ----------------------------------------------------------------------- *)
(* C14: retry discipline of executeWithRetry.  The generator is called k   *)
(* times, k being the position of the first call that succeeds or fails    *)
(* with an error that is not retryable, and never more than maxAttempts:   *)
(* every call before the last failed with an AIProviderError of code       *)
(* TIMEOUT, RATE_LIMIT or NETWORK_ERROR, one delay precedes each retry,    *)
(* and when the request fails the error thrown is that of the last call.   *)
(* ----------------------------------------------------------------------- *)
ClassifiedRetryable(o) ==
    /\ ~o.ok
    /\ o.instance
    /\ o.code \in {"TIMEOUT", "RATE_LIMIT", "NETWORK_ERROR"}

AgentCalls == Len(agTrace)

AgentSettled == agState \in {"returned", "thrown"}

C14_RetryDiscipline ==
    agState # "off" =>
        /\ AgentCalls <= agMax
        /\ \A i \in 1..(AgentCalls - 1) : ClassifiedRetryable(agTrace[i])
        /\ agState = "calling" => (AgentCalls = agAttempt - 1 /\ agDelays = AgentCalls)
        /\ agState = "delay" =>
              /\ AgentCalls = agAttempt /\ agDelays = AgentCalls - 1
              /\ ClassifiedRetryable(agTrace[AgentCalls])
              /\ AgentCalls < agMax
        /\ AgentSettled =>
              /\ AgentCalls = agAttempt /\ agDelays = AgentCalls - 1
              /\ \/ agTrace[AgentCalls].ok
                 \/ ~ClassifiedRetryable(agTrace[AgentCalls])
                 \/ AgentCalls = agMax
        /\ agState = "returned" => (agTrace[AgentCalls].ok /\ agThrown = "none")
        /\ agState = "thrown" =>
              (~agTrace[AgentCalls].ok /\ agThrown = agTrace[AgentCalls])

\* Three attempts, each failed with a retryable error, two delays, and the
\* error of the third call thrown.
C14_Witness ==
    /\ agState = "thrown" /\ agMax = DefaultMaxAttempts
    /\ AgentCalls = DefaultMaxAttempts /\ agDelays = DefaultMaxAttempts - 1
    /\ agTrace[1] = Rejection(TRUE, "TIMEOUT")
    /\ agTrace[2] = Rejection(TRUE, "RATE_LIMIT")
    /\ agThrown = Rejection(TRUE, "NETWORK_ERROR")

(* ----------------------------------------------------------------------- *)
(* C15 as stated: when a call of VercelAIProvider.generateDocumentation    *)
(* fails with the rate-limit error (HTTP 429, code RATE_LIMIT) and         *)
(* attempts remain, the agent retries: it waits and calls the provider     *)
(* again instead of failing.                                               *)
(* ----------------------------------------------------------------------- *)
RateLimitError == VercelError([name |-> "APICallError", statusCode |-> 429])

C15_AsStated ==
    [][(/\ agProvider = "vercel"
        /\ agState = "calling"
        /\ agTrace' = Append(agTrace, RateLimitError)
        /\ agAttempt < agMax)
       => agState' = "delay"]_vars

(* ----------------------------- detectDrift ------------------------------ *)

\* How many records of a list are about the entry of id i.
CountOf(list, i) == Cardinality({j \in 1..Len(list) : list[j].id = i})

CountMissing(i, reason) ==
    Cardinality({j \in 1..Len(detMissing) :
                    detMissing[j].id = i /\ detMissing[j].reason = reason})

\* The entries the loop has gone through.
Examined == 1..detIdx

\* The analyzer returns, and reports the symbol of entry i.
ReportsSymbol(i) ==
    /\ fileExists(i) /\ ~analyzerThrows(i)
    /\ \E j \in 1..Len(analyzeFile(i)) :
          analyzeFile(i)[j].symbolName = detEntries[i].symbolName

\* The hash the analyzer reports for the symbol of entry i.
ReportedHash(i) ==
    LET sigs == analyzeFile(i)
    IN  sigs[CHOOSE j \in 1..Len(sigs) : sigs[j].symbolName = detEntries[i].symbolName].hash

HasDrifted(i) ==
    /\ ReportsSymbol(i)
    /\ ReportedHash(i) # NoHash
    /\ ReportedHash(i) # detEntries[i].codeSignatureHash

\* C17: detectDrift emits exactly one DriftRecord for an entry iff its code
\* file exists, the analyzer reports a signature with the entry's symbol name
\* and a non-empty hash, and that hash differs from the stored hash; the
\* record carries the analyzer's hash as currentHash and the stored hash as
\* oldHash; an entry whose hash matches emits nothing.
C17_OneDriftRecordIffHashDiffers ==
    \A i \in Examined :
        /\ CountOf(detDrifts, i) = (IF HasDrifted(i) THEN 1 ELSE 0)
        /\ \A j \in 1..Len(detDrifts) :
              detDrifts[j].id = i =>
                 /\ detDrifts[j].currentHash = ReportedHash(i)
                 /\ detDrifts[j].oldHash = detEntries[i].codeSignatureHash

C17_Witness ==
    /\ detState = "returned"
    /\ \E i, k \in Examined :
          /\ detEnv[i] = "new_hash" /\ CountOf(detDrifts, i) = 1
          /\ detEnv[k] = "same_hash" /\ CountOf(detDrifts, k) = 0

\* C18: for every entry, missing(file_not_found) is reported iff the code
\* file does not exist, and missing(symbol_not_found) iff the file exists and
\* the analyzer returns no signature with the entry's symbol name; no entry
\* is in both drifts and missing, and none is more than once in either list.
C18_MissingClassification ==
    \A i \in Examined :
        /\ CountMissing(i, "file_not_found") = (IF fileExists(i) THEN 0 ELSE 1)
        /\ CountMissing(i, "symbol_not_found") =
              (IF fileExists(i) /\ ~analyzerThrows(i) /\ ~ReportsSymbol(i) THEN 1 ELSE 0)
        /\ CountOf(detMissing, i) <= 1
        /\ CountOf(detDrifts, i) <= 1
        /\ ~(CountOf(detDrifts, i) > 0 /\ CountOf(detMissing, i) > 0)

C18_Witness ==
    /\ detState = "returned"
    /\ \E i, k, m \in Examined :
          /\ detEnv[i] = "file_missing" /\ CountMissing(i, "file_not_found") = 1
          /\ detEnv[k] = "other_symbol" /\ CountMissing(k, "symbol_not_found") = 1
          /\ detEnv[m] = "new_hash" /\ CountOf(detMissing, m) = 0

\* What detectDrift reports for entry i, a function of the code of that
\* entry alone.
OwnClassification(i) ==
    CASE ~fileExists(i) -> "file_not_found"
      [] analyzerThrows(i) -> "none"
      [] ~ReportsSymbol(i) -> "symbol_not_found"
      [] HasDrifted(i) -> "drift"
      [] OTHER -> "none"

Reported(i) ==
    CASE CountOf(detDrifts, i) = 1 /\ CountOf(detMissing, i) = 0 -> "drift"
      [] CountOf(detDrifts, i) = 0 /\ CountMissing(i, "file_not_found") = 1
            /\ CountOf(detMissing, i) = 1 -> "file_not_found"
      [] CountOf(detDrifts, i) = 0 /\ CountMissing(i, "symbol_not_found") = 1
            /\ CountOf(detMissing, i) = 1 -> "symbol_not_found"
      [] CountOf(detDrifts, i) = 0 /\ CountOf(detMissing, i) = 0 -> "none"
      [] OTHER -> "mixed"

Throwing == {i \in 1..Len(detEntries) : fileExists(i) /\ analyzerThrows(i)}

\* C19: when analyzing the code file of an entry throws, detectDrift still
\* reports every other entry as the code of that entry alone decides, puts
\* the failing entry in neither list, and returns normally.
C19_FailureIsolation ==
    /\ [](detState # "aborted")
    /\ []((Throwing \cap Examined # {}) =>
            \A i \in Examined :
               /\ Reported(i) = OwnClassification(i)
               /\ i \in Throwing => Reported(i) = "none")
    /\ <>(detState = "returned")

C19_Witness ==
    /\ detState = "returned"
    /\ Len(detEntries) = 3
    /\ 1 \in Throwing
    /\ Reported(1) = "none"
    /\ detEnv[2] = "new_hash" /\ Reported(2) = "drift"
    /\ detEnv[3] = "file_missing" /\ Reported(3) = "file_not_found"

(* --------------------------- DoctypeMapManager --------------------------- *)

\* The hashes stored in the map for an id.
HashesOf(id) ==
    {stEntries[i].codeSignatureHash : i \in {j \in 1..Len(stEntries) : stEntries[j].id = id}}

\* C16: hasDrift(id, currentHash) returns true iff an entry with that id
\* exists and its codeSignatureHash differs from currentHash: true only when
\* a hash stored for the id differs from currentHash, false only when the id
\* is absent or a hash stored for the id equals currentHash; and the call
\* changes nothing in the map.
C16_HasDriftIffStoredHashDiffers ==
    [][\A id \in StoreIds, currentHash \in StoreHashes :
          CallHasDrift(id, currentHash) =>
             /\ stLast'.result = TRUE => HashesOf(id) \ {currentHash} # {}
             /\ stLast'.result = FALSE =>
                   (HashesOf(id) = {} \/ currentHash \in HashesOf(id))
             /\ stLast'.result \in BOOLEAN
             /\ stEntries' = stEntries]_vars

C16_Witness ==
    /\ stLast.op = "hasDrift"
    /\ stLast.result = FALSE
    /\ \A i \in 1..Len(stEntries) : stEntries[i].id # stLast.id
    /\ stEntries # <<>>

\* C20: after any sequence of addEntry, updateEntry and removeEntry calls,
\* succeeding or failing, no two entries of the map have the same id.
C20_AsStated ==
    \A i, j \in 1..Len(stEntries) :
        stEntries[i].id = stEntries[j].id => i = j

\* The ids of the entries of the map.
IdsInMap == {stEntries[i].id : i \in 1..Len(stEntries)}

\* The call made by this step.
StoreCall(op) == stCalls' = stCalls + 1 /\ stLast'.op = op

\* C21: a failing mutation leaves the map as it was: addEntry with an id
\* already present fails with DuplicateIdError, updateEntry with an absent id
\* fails with NotFoundError, and in both cases the entry list, its order and
\* every field, is unchanged.
C21_FailedMutationChangesNothing ==
    [][/\ (StoreCall("addEntry") /\ stLast'.id \in IdsInMap) =>
             (stLast'.result = "DuplicateIdError" /\ stEntries' = stEntries)
       /\ (StoreCall("updateEntry") /\ stLast'.id \notin IdsInMap) =>
             (stLast'.result = "NotFoundError" /\ stEntries' = stEntries)]_vars

C21_Witness ==
    /\ stLast.op = "addEntry"
    /\ stLast.result = "DuplicateIdError"
    /\ Len(stEntries) = 2
    /\ stEntries[1].id = stLast.id
    /\ stEntries[1].codeSignatureHash # stLast.hash

\* The entries of a list whose id is not the given one, in their order.
OthersOf(entries, id) ==
    LET keep == {i \in 1..Len(entries) : entries[i].id # id}
        pos(k) == CHOOSE i \in keep : Cardinality({j \in keep : j < i}) = k - 1
    IN  [k \in 1..Cardinality(keep) |-> entries[pos(k)]]

IdsOf(m) == {id \in DOMAIN m : m[id] # NoEntry}

\* C23: neither detectDrift nor executeFixes removes an entry of the map: no
\* step of a fix run takes an id out of the map in memory or out of the map
\* file, whatever the outcomes of the records, and no step of detectDrift
\* changes an entry.
C23_NoEntryRemoved ==
    [][/\ IdsOf(mapEntries) \subseteq IdsOf(mapEntries')
       /\ IdsOf(diskMap) \subseteq IdsOf(diskMap')
       /\ detEntries' = detEntries]_vars

\* A fix run has ended with a failed record, an updated entry and an added
\* entry, and every id of the start is still in the map.
C23_Witness ==
    /\ phase = "returned"
    /\ failCount > 0
    /\ successCount > 0
    /\ IdsOf(MapAtStart) \subseteq IdsOf(mapEntries)
    /\ IdsOf(mapEntries) # IdsOf(MapAtStart)

(* ------------------- anchor extraction, content injection --------------- *)

\* C24: for any document with a well-formed anchor block, extracting the
\* anchor and injecting its own content back into it leaves the file as it
\* was, byte for byte.
C24_AsStated ==
    [][\A anchorId \in AnchorIds : ExtractThenInject(anchorId) => cDoc' = cDoc]_vars

\* The anchor the injection of this step is made into.
TargetOf(anchorId) == CHOOSE a \in AnchorsWithId(cDoc, anchorId) : TRUE

\* The injection of this step has succeeded and has written the file.
InjectedInto(anchorId) ==
    /\ \E replacement \in NewContents : InjectIntoFile(anchorId, replacement, TRUE)
    /\ cLast'.result.success

\* The lines up to the start marker, and from the end marker on, are as before.
MarkersAndOutsideKept(a) ==
    /\ Len(cDoc') >= a.startLine + (Len(cDoc) - a.endLine) + 1
    /\ SubSeq(cDoc', 1, a.startLine) = SubSeq(cDoc, 1, a.startLine)
    /\ SubSeq(cDoc', Len(cDoc') - (Len(cDoc) - a.endLine), Len(cDoc'))
          = SubSeq(cDoc, a.endLine, Len(cDoc))

\* The anchor is still in the file with the content it had.
ContentKept(b) ==
    \E c \in extractAnchors(cDoc').anchors : c.id = b.id /\ c.content = b.content

\* The two blocks have no line in common.
Apart(a, b) == b.endLine < a.startLine \/ a.endLine < b.startLine

\* C25 as stated: a successful injectIntoFile changes only the text strictly
\* between the markers of the target: the marker lines, the text before and
\* after, and the content of every other anchor are unchanged.
C25_AsStated ==
    [][\A anchorId \in AnchorIds :
          InjectedInto(anchorId) =>
             /\ MarkersAndOutsideKept(TargetOf(anchorId))
             /\ \A b \in extractAnchors(cDoc).anchors :
                   b.id # anchorId => ContentKept(b)]_vars

\* C25: a successful injectIntoFile changes only the text strictly between
\* the markers of the target: the marker lines, the text before and after,
\* and the content of every other anchor whose block has no line in common
\* with the block of the target are unchanged.
C25_OnlyBetweenTheMarkers ==
    [][\A anchorId \in AnchorIds :
          InjectedInto(anchorId) =>
             /\ MarkersAndOutsideKept(TargetOf(anchorId))
             /\ \A b \in extractAnchors(cDoc).anchors :
                   (b.id # anchorId /\ Apart(TargetOf(anchorId), b)) => ContentKept(b)]_vars

\* An injection has been written into one of two blocks of a file.
C25_Witness ==
    /\ cLast.op = "inject"
    /\ cLast.write
    /\ cLast.result.success
    /\ cDoc = cLast.result.content
    /\ Cardinality(extractAnchors(cDoc).anchors) = 2
    /\ \E a \in extractAnchors(cDoc).anchors :
          a.id = cLast.id /\ a.content = cLast.newContent

\* The file has a block of the id: a start marker and, after it, an end marker.
HasBlock(doc, anchorId) ==
    \E i, j \in 1..Len(doc) :
        /\ i < j
        /\ doc[i] = StartMarker(anchorId)
        /\ doc[j] = EndMarker(anchorId)

\* This step is a call of injectIntoFile, made directly or by fixCommand.
InjectionCall == cLast.op = "none" /\ cLast'.op \in {"inject", "fix"}

\* C26: injectIntoFile with an anchor id that is not in the file returns
\* success = false with the anchor-not-found error and leaves the file as it
\* was; fixCommand records the entry as a failed fix.
C26_AbsentAnchorFails ==
    [][(InjectionCall /\ ~HasBlock(cDoc, cLast'.id)) =>
          /\ cLast'.result.success = FALSE
          /\ cLast'.result.error = "AnchorNotFoundError"
          /\ cDoc' = cDoc
          /\ cLast'.op = "fix" =>
                /\ cLast'.fix.success = FALSE
                /\ cLast'.fix.id = cLast'.id
                /\ cLast'.failCount = 1
                /\ cLast'.successCount = 0]_vars

\* fixCommand, not a dry run, for an entry whose anchor is not in a file that
\* holds another anchor.
C26_Witness ==
    /\ cLast.op = "fix"
    /\ cLast.write
    /\ ~HasBlock(cDoc, cLast.id)
    /\ \E other \in AnchorIds : HasBlock(cDoc, other)
    /\ cLast.fix.success = FALSE

\* The lines of the start markers of an id.
StartLinesOf(doc, anchorId) == {i \in 1..Len(doc) : doc[i] = StartMarker(anchorId)}

\* The document has two blocks of the id, one after the other.
HasTwoBlocks(doc, anchorId) ==
    \E i, j, k, m \in 1..Len(doc) :
        /\ i < j /\ j < k /\ k < m
        /\ doc[i] = StartMarker(anchorId) /\ doc[j] = EndMarker(anchorId)
        /\ doc[k] = StartMarker(anchorId) /\ doc[m] = EndMarker(anchorId)

\* C27: when a document has two anchor blocks of the same id, extract reports
\* an error that names the id as a duplicate and returns the first block of
\* the id only; the second block is never the one returned.
C27_FirstBlockWins ==
    cLast.op = "extract" =>
       \A anchorId \in AnchorIds :
          HasTwoBlocks(cDoc, anchorId) =>
             /\ \E e \in cLast.result.errors : e.kind = "duplicate" /\ e.id = anchorId
             /\ \E a \in cLast.result.anchors : a.id = anchorId
             /\ \A a \in cLast.result.anchors :
                   a.id = anchorId =>
                      \A i \in StartLinesOf(cDoc, anchorId) : a.startLine <= i

C27_Witness ==
    /\ cLast.op = "extract"
    /\ cDoc = <<StartMarker(1), TextLine("a"), EndMarker(1), StartMarker(1), EndMarker(1)>>
    /\ Cardinality(cLast.result.anchors) = 1
    /\ \E a \in cLast.result.anchors : a.content = <<TextLine("a")>>

\* The ids with one start marker and one end marker, in this order.
WellFormedIds(doc) ==
    {x \in AnchorIds :
        \E i, j \in 1..Len(doc) :
           /\ i < j
           /\ {k \in 1..Len(doc) : doc[k].kind # "text" /\ doc[k].id = x} = {i, j}
           /\ doc[i] = StartMarker(x)
           /\ doc[j] = EndMarker(x)}

\* C28: a start marker with no end marker of its id before end of file is
\* reported as unclosed and gives no anchor; an end marker with no start
\* marker of its id before it is reported as orphaned and closes no anchor;
\* every well-formed anchor of the document, those after an unclosed start
\* included, is returned.
C28_OnlyOffendingRegionExcluded ==
    cLast.op = "extract" =>
       /\ \A i \in 1..Len(cDoc) :
             (cDoc[i].kind = "start"
                 /\ ~\E j \in (i + 1)..Len(cDoc) : cDoc[j] = EndMarker(cDoc[i].id)) =>
                /\ \E e \in cLast.result.errors :
                      e.kind = "unclosed" /\ e.id = cDoc[i].id /\ e.line = i
                /\ \A a \in cLast.result.anchors : a.startLine # i
       /\ \A j \in 1..Len(cDoc) :
             (cDoc[j].kind = "end"
                 /\ ~\E i \in 1..(j - 1) : cDoc[i] = StartMarker(cDoc[j].id)) =>
                /\ \E e \in cLast.result.errors :
                      e.kind = "orphaned" /\ e.id = cDoc[j].id /\ e.line = j
                /\ \A a \in cLast.result.anchors : a.endLine # j
       /\ \A x \in WellFormedIds(cDoc) :
             \E a \in cLast.result.anchors :
                /\ a.id = x
                /\ cDoc[a.startLine] = StartMarker(x)
                /\ cDoc[a.endLine] = EndMarker(x)

\* An unclosed start, and a well-formed anchor after it.
C28_Witness ==
    /\ cLast.op = "extract"
    /\ Len(cDoc) = 4
    /\ cDoc[1].kind = "start"
    /\ \E e \in cLast.result.errors : e.kind = "unclosed" /\ e.line = 1
    /\ \E a \in cLast.result.anchors :
          a.startLine = 2 /\ a.endLine = 4 /\ a.content = <<TextLine("a")>>

(* ------------------------------ auto-commit ----------------------------- *)

\* C29: the auto-commit step runs only after every record has reached a
\* terminal state, it changes no outcome and no count, and the FixResult
\* returned is the one the outcomes of the records give, whether the commit
\* has succeeded or failed.
C29_CommitNeverChangesResult ==
    /\ [][commitResult' # commitResult =>
             /\ AllRecordsTerminal
             /\ UNCHANGED <<results, successCount, failCount, pc>>]_vars
    /\ [](phase = "returned" =>
             /\ commitResult # "none"
             /\ fixResult.success = (\A t \in Records : pc[t] = "succeeded")
             /\ fixResult.successfulFixes =
                   Cardinality({t \in Records : pc[t] = "succeeded"})
             /\ fixResult.failedFixes =
                   Cardinality({t \in Records : pc[t] = "failed"})
             /\ fixResult.totalFixes = n)

\* A run without failure has returned after a commit that failed.
C29_Witness ==
    /\ phase = "returned"
    /\ commitResult = "commit_failed"
    /\ n = MaxDrifts
    /\ fixResult.success
    /\ fixResult.successfulFixes = n

(* -------------------------- locks of different files -------------------- *)

\* C30: a task that waits for or holds the lock of one documentation file
\* never blocks a task of another file: the lock a waiting task asks for is
\* free unless a task of the same file is inside its critical section.  (That
\* two tasks of different files are inside their critical sections at the
\* same time is the state of the witness.)
C30_OtherFilesNeverBlock ==
    \A t \in Records :
        (/\ pc[t] = "waiting"
         /\ \A u \in Records : (u # t /\ SameFile(t, u)) => ~InCriticalSection(u))
           => LockKey(t) \notin held

C30_Witness ==
    \E t, u \in Records :
        /\ ~SameFile(t, u)
        /\ InCriticalSection(t)
        /\ InCriticalSection(u)
        /\ \E w \in Records : pc[w] = "waiting" /\ SameFile(w, t)

(* ------------------- spellings of one documentation file ---------------- *)

\* Records t and u name one file with two spellings of docRef.filePath.
TwoSpellings(t, u) ==
    /\ t # u
    /\ DocRefPath(t) # DocRefPath(u)
    /\ SameFile(t, u)

\* C31: two drift records whose docRef.filePath are different spellings of
\* the same file ask for the same lock key, and so are serialized like any
\* pair of the same file: while one of them is inside its critical section
\* the key is held and the other is not inside.
C31_SpellingsShareTheLock ==
    \A t, u \in Records :
        TwoSpellings(t, u) =>
            /\ LockKey(t) = LockKey(u)
            /\ InCriticalSection(t) => (LockKey(u) \in held /\ ~InCriticalSection(u))

\* Record 3 ("new/c.md") is inside the critical section, suspended at the
\* creation of the directory, while record 4 ("./new/../new/c.md") waits for
\* the lock.
C31_Witness ==
    \E t, u \in Records :
        /\ TwoSpellings(t, u)
        /\ pc[t] = "mkdir"
        /\ pc[u] = "waiting"

(* ------------------------ SmartChecker.checkReadme ---------------------- *)

AICalls == {"createAIAgentsFromEnv", "validateConnection", "generateText"}

\* The positions of the calls of one function among the calls made.
CallsOf(name) == {k \in 1..Len(scCalls) : scCalls[k] = name}

NoAICall == \A k \in 1..Len(scCalls) : scCalls[k] \notin AICalls

\* The change analysis resolved with an empty diff.
EmptyDiffAnalysed == scContext.resolved /\ scContext.gitDiff = <<>>

\* What the pre-filter is there for, said of the diff itself: a change of a
\* command file, or a changed line with a keyword outside the README.
WorthAnAICheck ==
    \E k \in 1..Len(scContext.gitDiff) :
        LET section == scContext.gitDiff[k] IN
        \/ section.file = "src/commands/run.ts"
        \/ section.file # "README.md" /\ section.line = "export class"

\* C32: when README.md does not exist, or the change analysis yields an
\* empty diff, checkReadme has returned hasDrift = false and no AI agent was
\* created or called; an AI agent is created or called only after the
\* README was found to exist, the analysis gave a diff that is not empty,
\* and the deterministic pre-filter passed.
C32_NoAgentWithoutReadmeAndChanges ==
    /\ (scState \notin {"off", "start"} /\ (~scReadme \/ EmptyDiffAnalysed))
          => /\ scState = "returned"
             /\ scResult = [returned |-> TRUE, hasDrift |-> FALSE]
             /\ NoAICall
    /\ \A k \in 1..Len(scCalls) :
          scCalls[k] \in AICalls
             => /\ scReadme
                /\ scContext.resolved /\ scContext.gitDiff # <<>>
                /\ WorthAnAICheck
                /\ \E i, j \in 1..(k - 1) :
                      i < j /\ scCalls[i] = "existsSync" /\ scCalls[j] = "analyze"

\* The README exists and the analysis gave an empty diff: checkReadme has
\* returned after the two calls.
C32_Witness ==
    /\ scReadme /\ EmptyDiffAnalysed
    /\ scState = "returned"
    /\ scCalls = <<"existsSync", "analyze">>

\* The calls of a checkReadme that consults the planner.
ConsultedOnce ==
    scCalls = <<"existsSync", "analyze", "readFileSync",
                "createAIAgentsFromEnv", "validateConnection", "generateText">>

\* The response, cleaned, parses as JSON with a truthy hasDrift.
ParsedWithDrift(response) ==
    /\ ~ParseThrows(cleanJson(response))
    /\ ResultHasDrift(cleanJson(response))

\* C33: checkReadme returns hasDrift = true exactly when the planner was
\* consulted (agents created, connection validated, generateText resolved)
\* and the response parsed as JSON with a truthy hasDrift; every other
\* return (analysis error, failed connection, AI error, response that does
\* not parse) has hasDrift = false; and when hasDrift is true,
\* validateConnection and generateText were each called exactly once.
C33_DriftIffPlannerSaysSo ==
    scResult.returned =>
        /\ scResult.hasDrift
              <=> /\ ConsultedOnce
                  /\ scResponse # NoResponse
                  /\ ParsedWithDrift(scResponse)
        /\ scResult.hasDrift
              => /\ Cardinality(CallsOf("validateConnection")) = 1
                 /\ Cardinality(CallsOf("generateText")) = 1
                 /\ Cardinality(CallsOf("createAIAgentsFromEnv")) = 1

\* The planner answered inside a fenced block with a hasDrift that is
\* truthy without being true, and checkReadme returned hasDrift = true.
C33_Witness ==
    /\ scResult.returned /\ scResult.hasDrift
    /\ Head(scResponse) = Fence
    /\ scResponse[Len(scResponse)] = FenceEnd
    /\ \E k \in 1..Len(scResponse) : scResponse[k].hasDrift = "'yes'"

(* ------------------------------ initCommand ----------------------------- *)

\* The user agrees to overwrite: yes or y, in any case.
SaysYes(answer) == answer \in {"yes", "y", "YES"}

CancelledResult ==
    [returned |-> TRUE, success |-> FALSE,
     error |-> "Configuration file already exists"]

\* C34: when a configuration file exists and the user declines to overwrite
\* it, initCommand returns success = false with the error 'Configuration
\* file already exists', asks no further question, and the configuration
\* file and the .env file are as they were: neither the check of the file
\* nor the declined question changes a file.
C34_DeclinedOverwriteChangesNothing ==
    [][/\ initState \in {"start", "overwrite"} => initFiles' = initFiles
       /\ (/\ initState = "overwrite"
           /\ ~SaysYes(initAnswers'[Len(initAnswers')]))
             => /\ initResult' = CancelledResult
                /\ initState' = "returned"
                /\ initAsked' = initAsked
                /\ initAsked = <<"overwrite">>
                /\ initFiles'.config = FileOf(<<ExistingConfig>>, FALSE)]_vars

\* The user answered something that is neither a yes nor a no; the call
\* returned the error after that one question, with a key in .env.
C34_Witness ==
    /\ initState = "returned"
    /\ initResult = CancelledResult
    /\ initAsked = <<"overwrite">>
    /\ initAnswers = <<"maybe">>
    /\ initFiles.config = FileOf(<<ExistingConfig>>, FALSE)
    /\ existingApiKey(initFiles.env) = "sk-old"

(* ---------------------------------- pMap -------------------------------- *)

\* The sequence 1, 2, ..., in this order.
Ascending(seq) == \A k \in 1..Len(seq) : seq[k] = k

\* C35: pMap calls the mapper with the items in ascending index order, each
\* item at most once; a slot of results that is filled holds the mapper's
\* result for the item of that index; and when pMap returns, the mapper was
\* called with every item and results[i] is the mapper's result for
\* items[i], whatever the pool width (1 or more), the number of items (none,
\* fewer than the width, more) and the order in which the calls completed.
C35_EveryItemOnceInInputOrder ==
    /\ Ascending(pmDispatched)
    /\ Len(pmDispatched) = pmIndex
    /\ Len(pmResults) = Len(pmItems)
    /\ \A i \in 1..Len(pmItems) :
          pmResults[i] # EmptySlot => pmResults[i] = MapperOf(pmItems[i])
    /\ pmState = "returned" =>
          /\ Len(pmDispatched) = Len(pmItems)
          /\ \A i \in 1..Len(pmItems) : pmResults[i] = MapperOf(pmItems[i])

\* Four items in a pool of three: the third call completed first, its
\* thread took the fourth item, and pMap returned.
C35_Witness ==
    /\ pmState = "returned"
    /\ Len(pmItems) = 4 /\ pmWidth = 3
    /\ pmCompleted = <<3, 1, 4, 2>>

(* ----------------------- the file lock and its release ------------------ *)

\* The tasks inside the callback of fileMutex.run for a key.
TasksInside(key) == {t \in Records : InCriticalSection(t) /\ LockKey(t) = key}

\* C36: a file lock is held only while exactly one task is in the
\* injection step of that file, and a task in that step holds the lock of
\* its file; the lock is released on every way out of the step (a success,
\* a failed result, an exception thrown by the injection or by the save of
\* the map): a task that has its outcome is no longer counted for a held
\* lock; and once executeFixes is past pMap, and when it has returned, no
\* lock is held.
C36_LockHeldOnlyDuringInjection ==
    /\ \A key \in held : Cardinality(TasksInside(key)) = 1
    /\ \A t \in Records : InCriticalSection(t) => LockKey(t) \in held
    /\ \A t \in Records :
          (pc[t] \in Terminal /\ LockKey(t) \in held)
             => \E u \in Records : u # t /\ SameFile(t, u) /\ InCriticalSection(u)
    /\ phase \in {"summary", "summarized", "returned"} => held = {}

\* A run that writes has returned with no lock held; of two records of one
\* file one left the step with a failure and the other with a success.
C36_Witness ==
    /\ phase = "returned" /\ ~dryRun
    /\ held = {}
    /\ \E t, u \in Records :
          /\ SameFile(t, u)
          /\ pc[t] = "failed"
          /\ pc[u] = "succeeded"

(* -------------------- failures after the file was written --------------- *)

\* Record t has left its documentation file and its map entry, in memory
\* and in the map file, as they were at the start of the run.
ChangedNothing(t) ==
    /\ \/ disk[DocFilePath(t)] = NoFile
       \/ /\ FileAtStart(DocFilePath(t)) # NoFile
          /\ disk[DocFilePath(t)][EntryId(t)] = FileAtStart(DocFilePath(t))[EntryId(t)]
       \/ /\ FileAtStart(DocFilePath(t)) = NoFile
          /\ disk[DocFilePath(t)][EntryId(t)] = Absent
    /\ mapEntries[EntryId(t)] = MapAtStart[EntryId(t)]
    /\ diskMap[EntryId(t)] = MapAtStart[EntryId(t)]

\* C37 as stated: every record whose outcome has success = false changed
\* neither its documentation file nor its map entry, in memory or on disk.
C37_AsStated ==
    \A t \in Records :
        (pc[t] = "failed" /\ ~results[t].success) => ChangedNothing(t)

(* ------------------------------ the insert path ------------------------- *)

\* The documentation file of record t held no anchor of the entry's id when
\* the run started.
AbsentAtStart(t) ==
    \/ FileAtStart(DocFilePath(t)) = NoFile
    \/ FileAtStart(DocFilePath(t))[EntryId(t)] = Absent

\* C38: after a successful fix, in a run that writes, of a record whose
\* anchor was absent from its documentation file, the file holds an anchor
\* whose id is the id of the record's map entry, with the new content: the
\* test of the anchor that chooses between update and insert now finds it,
\* so a later run updates that block and inserts no second one.
C38_InsertedAnchorCarriesEntryId ==
    ~dryRun =>
        \A t \in Records :
            (pc[t] = "succeeded" /\ AbsentAtStart(t))
               => /\ anchorExists(t)
                  /\ disk[DocFilePath(t)][EntryId(t)] = results[t].newContent

\* Two records of a file that did not exist were both fixed by insertion.
C38_Witness ==
    /\ ~dryRun
    /\ \E t, u \in Records :
          /\ t # u /\ SameFile(t, u)
          /\ FileAtStart(DocFilePath(t)) = NoFile
          /\ pc[t] = "succeeded" /\ pc[u] = "succeeded"
          /\ anchorExists(t) /\ anchorExists(u)

(* -------------------------- GitHelper.autoCommit ------------------------ *)

\* The commands of autoCommit in their order.
CommitOrder == <<"add", "commit", "push">>

\* C39: autoCommit runs staging, commit and push in that order, a command
\* only after every command before it succeeded, and push only if it was
\* asked for; when it returns after a failing command it returns that
\* command's result; when every command asked for succeeded it returns a
\* success with the commit message; when the directory is not a git
\* repository it has run no command.
C39_StagingCommitPushInOrder ==
    /\ \A k \in 1..Len(gitSteps) :
          /\ k <= 3 /\ gitSteps[k].step = CommitOrder[k]
          /\ \A j \in 1..(k - 1) : gitSteps[j].success
          /\ gitSteps[k].step = "push" => gitPush
    /\ gitResult.returned =>
          IF gitSteps = <<>>
          THEN gitResult = [returned |-> TRUE, success |-> FALSE,
                            text |-> "Not a git repository"]
          ELSE LET last == gitSteps[Len(gitSteps)] IN
               IF ~last.success
               THEN gitResult = [returned |-> TRUE, success |-> FALSE,
                                 text |-> last.text]
               ELSE /\ Len(gitSteps) = IF gitPush THEN 3 ELSE 2
                    /\ gitResult = [returned |-> TRUE, success |-> TRUE,
                                    text |-> createCommitMessage(gitSymbols)]

\* A push was asked for; staging and commit succeeded, the push failed, and
\* autoCommit returned the result of the push.
C39_Witness ==
    /\ gitPush
    /\ gitState = "returned"
    /\ gitSteps = <<GitOk("add"), GitOk("commit"), GitFailed("push")>>
    /\ gitResult = ReturnedFrom(GitFailed("push"))


\* The sanitized text of the call still holds the opener of an HTML comment.
CommentSurvives == Includes(sanitizeContent(vpText), CommentOpen)

\* C40: content that generateDocumentation returns never contains the opener
\* of an HTML comment; a generated text that still contains one after
\* sanitizeContent makes the call fail instead of returning it.
C40_ReturnedContentHasNoComment ==
    /\ vpState = "returned" =>
          /\ vpResult.content = sanitizeContent(vpText)
          /\ ~Includes(vpResult.content, CommentOpen)
    /\ (vpState \in {"returned", "thrown"} /\ CommentSurvives) =>
          /\ vpState = "thrown"
          /\ vpResult = [content |-> <<>>, code |-> "GENERATION_FAILED"]

\* A text with a whole comment in it was returned without the comment.
C40_Witness ==
    /\ vpState = "returned"
    /\ vpText = Flatten(<<(<<"x">>), CommentOpen, (<<"x">>), CommentClose>>)
    /\ vpResult.content = <<"x">>

\* A comment opener put together by the removal of a comment made the call
\* fail.
CommentJoined ==
    /\ vpState = "thrown"
    /\ vpText = Flatten(<<(<<"<", "!">>), CommentOpen, CommentClose, (<<"-", "-">>)>>)
    /\ sanitizeContent(vpText) = CommentOpen

=============================================================================
